---- MODULE Spec2Model ----
(***************************************************************************)
(* Requests configuration manager of paperbox (composition-based variant,  *)
(* internal/config/requests/manager.go lines 1-339), its validator, its    *)
(* JSON load/save/migration code and the atomic file writer.               *)
(***************************************************************************)
EXTENDS Integers, Sequences, FiniteSets, TLC

(***************************************************************************)
(* Bounds of the model.                                                    *)
(***************************************************************************)
\* number of calls made to the manager after the start-up Load
MaxOps == 2
\* number of calls in a run of the save pipeline
MaxBurst == 3
\* longest byte payload handed to the atomic writer
MaxLen == 2
\* number of items of the configurations handed to Validate
MaxItems == 4

(***************************************************************************)
(* Program constants.                                                      *)
(***************************************************************************)
CurrentVersion == 2
MaxFolderDepth == 3
\* CurrentVersion of the user configuration, which the generic manager serves
BmCurrentVersion == 1

ItemTypeRequest == "request"
ItemTypeFolder == "folder"

\* Item ids are opaque strings (uuid.New().String() in the code).
IDs == {"i1", "i2", "i3", "i4"}

\* A Go string holding a byte sequence that is not valid UTF-8, and the
\* replacement rune encoding/json substitutes for it.
BadUtf8 == "\\xff"
ReplacementRune == "\\ufffd"

(***************************************************************************)
(* Data model: Item and RequestsConfig.                                    *)
(***************************************************************************)
Item(t, n, m, p, ch) ==
    [type |-> t, name |-> n, method |-> m, path |-> p, children |-> ch]

Folder(n, ch) == Item(ItemTypeFolder, n, "", "", ch)

Request(n, m, p) == Item(ItemTypeRequest, n, m, p, <<>>)

\* nilValues models a nil Values map (a decoded document without "values").
RequestsConfig(v, vals, ro) ==
    [version |-> v, values |-> vals, rootOrder |-> ro, nilValues |-> FALSE]

EmptyMap == [k \in {} |-> Folder("", <<>>)]

NewRequestsConfig == RequestsConfig(CurrentVersion, EmptyMap, <<>>)

Range(s) == {s[i] : i \in 1..Len(s)}

(***************************************************************************)
(* Validator.                                                              *)
(***************************************************************************)
ValidMethods ==
    {"GET", "POST", "PUT", "PATCH", "DELETE", "HEAD", "OPTIONS", "CONNECT", "TRACE"}

\* strings.ToUpper on the method tokens the model uses
ToUpper(m) == IF m = "get" THEN "GET" ELSE m

validateHTTPMethod(m) == m = "" \/ ToUpper(m) \in ValidMethods

\* struct tags of Item
ItemTagsOK(it) ==
    /\ it.type \in {ItemTypeRequest, ItemTypeFolder}
    /\ it.name # ""
    /\ validateHTTPMethod(it.method)
    /\ \A c \in Range(it.children) : c # ""

\* struct tags of RequestsConfig (validate.Struct)
StructOK(cfg) ==
    /\ cfg.version >= 1
    /\ ~cfg.nilValues
    /\ \A k \in DOMAIN cfg.values : k # "" /\ ItemTagsOK(cfg.values[k])
    /\ \A r \in Range(cfg.rootOrder) : r # ""

\* "" when the item passes, else the error of the first failing check
validateItemTypeSpecificRules(it) ==
    IF it.type = ItemTypeRequest
    THEN IF it.method = "" THEN "request must have a method"
         ELSE IF Len(it.children) > 0 THEN "request cannot have children"
         ELSE ""
    ELSE IF it.type = ItemTypeFolder
    THEN IF it.method # "" THEN "folder cannot have a method"
         ELSE IF it.path # "" THEN "folder cannot have a path"
         ELSE ""
    ELSE ""

ReferencedIDs(allItems) ==
    UNION {Range(allItems[k].children) : k \in DOMAIN allItems}

\* validateReferencesAndRootLevel without its second pass (root level items)
validateReferencesNoRootCheck(allItems) ==
    IF \E k \in DOMAIN allItems : k \in Range(allItems[k].children)
    THEN "circular reference detected"
    ELSE IF \E c \in ReferencedIDs(allItems) : c \notin DOMAIN allItems
    THEN "child reference does not exist"
    ELSE ""

\* validateReferencesAndRootLevel without its third pass (referenced ids exist)
validateReferencesNoExistCheck(allItems) ==
    IF \E k \in DOMAIN allItems : k \in Range(allItems[k].children)
    THEN "circular reference detected"
    ELSE IF \E k \in DOMAIN allItems :
              k \notin ReferencedIDs(allItems) /\ allItems[k].type # ItemTypeFolder
    THEN "root level item must be a folder"
    ELSE ""

\* validateReferencesAndRootLevel without the self-reference test of the
\* first pass
validateReferencesNoSelfCheck(allItems) ==
    IF \E k \in DOMAIN allItems :
          k \notin ReferencedIDs(allItems) /\ allItems[k].type # ItemTypeFolder
    THEN "root level item must be a folder"
    ELSE IF \E c \in ReferencedIDs(allItems) : c \notin DOMAIN allItems
    THEN "child reference does not exist"
    ELSE ""

\* The three passes run one after the other, so the error kind is fixed by
\* the first pass that finds a violation.
validateReferencesAndRootLevel(allItems) ==
    IF \E k \in DOMAIN allItems : k \in Range(allItems[k].children)
    THEN "circular reference detected"
    ELSE IF \E k \in DOMAIN allItems :
              k \notin ReferencedIDs(allItems) /\ allItems[k].type # ItemTypeFolder
    THEN "root level item must be a folder"
    ELSE IF \E c \in ReferencedIDs(allItems) : c \notin DOMAIN allItems
    THEN "child reference does not exist"
    ELSE ""

RECURSIVE validateFolderDepth(_, _, _, _)
RECURSIVE WalkChildren(_, _, _, _, _)

\* WalkChildren that hands currentDepth on to a folder child unchanged
WalkChildrenNoIncrement(itemID, allItems, currentDepth, visited, i) ==
    LET ch == allItems[itemID].children IN
    IF i > Len(ch) THEN ""
    ELSE LET childID == ch[i] IN
         IF childID \notin DOMAIN allItems
         THEN WalkChildren(itemID, allItems, currentDepth, visited, i + 1)
         ELSE LET e == validateFolderDepth(childID, allItems, currentDepth, visited)
              IN IF e # "" THEN e
                 ELSE WalkChildren(itemID, allItems, currentDepth, visited, i + 1)

\* the loop over item.Children of validateFolderDepth, from index i on
WalkChildren(itemID, allItems, currentDepth, visited, i) ==
    LET ch == allItems[itemID].children IN
    IF i > Len(ch) THEN ""
    ELSE LET childID == ch[i] IN
         IF childID \notin DOMAIN allItems
         THEN WalkChildren(itemID, allItems, currentDepth, visited, i + 1)
         ELSE LET isFolder == allItems[childID].type = ItemTypeFolder
                  nextDepth == IF isFolder THEN currentDepth + 1 ELSE currentDepth
              IN IF isFolder /\ nextDepth >= MaxFolderDepth
                 THEN "folder cannot contain nested folders"
                 ELSE LET e == validateFolderDepth(childID, allItems, nextDepth, visited)
                      IN IF e # "" THEN e
                         ELSE WalkChildren(itemID, allItems, currentDepth, visited, i + 1)

\* visited holds the ids on the current recursion path (the deferred delete
\* removes an id when its call returns)
validateFolderDepth(itemID, allItems, currentDepth, visited) ==
    IF itemID \in visited THEN "circular reference detected in folder depth validation"
    ELSE IF itemID \notin DOMAIN allItems THEN "item not found during depth validation"
    ELSE IF allItems[itemID].type = ItemTypeFolder
    THEN IF currentDepth >= MaxFolderDepth THEN "folder exceeds maximum nesting depth"
         ELSE WalkChildren(itemID, allItems, currentDepth, visited \cup {itemID}, 1)
    ELSE ""

\* The roots are visited in map order: the set of errors the walk can return.
validateMaxNestingDepth(allItems) ==
    {validateFolderDepth(k, allItems, 0, {}) :
        k \in {r \in DOMAIN allItems :
                 r \notin ReferencedIDs(allItems) /\ allItems[r].type = ItemTypeFolder}}
    \ {""}

\* Validate: the set of errors a call can return (map iteration order decides
\* which of several violations is reported); the empty set means nil.
Validate(cfg) ==
    IF ~StructOK(cfg) THEN {"validation failed"}
    ELSE LET typeErrs ==
               {validateItemTypeSpecificRules(cfg.values[k]) : k \in DOMAIN cfg.values} \ {""}
         IN IF typeErrs # {} THEN typeErrs
            ELSE LET refErr == validateReferencesAndRootLevel(cfg.values)
                 IN IF refErr # "" THEN {refErr}
                    ELSE validateMaxNestingDepth(cfg.values)

Valid(cfg) == Validate(cfg) = {}

(***************************************************************************)
(* JSON documents.  An object is a function from the keys that are present *)
(* to their values; a key with an omitempty tag is left out when its value  *)
(* is empty, and a missing key decodes to the zero value.                   *)
(***************************************************************************)
\* encoding/json coerces strings to valid UTF-8
CoerceUTF8(s) == IF s = BadUtf8 THEN ReplacementRune ELSE s

CoerceSeq(q) == [i \in 1..Len(q) |-> CoerceUTF8(q[i])]

\* MarshalItem with the children key always left out
MarshalItemNoChildren(it) ==
    LET full == [type |-> CoerceUTF8(it.type), name |-> CoerceUTF8(it.name),
                 method |-> CoerceUTF8(it.method), path |-> CoerceUTF8(it.path)]
        keys == {"type", "name"}
                  \cup (IF it.method # "" THEN {"method"} ELSE {})
                  \cup (IF it.path # "" THEN {"path"} ELSE {})
    IN [k \in keys |-> full[k]]

\* json.Marshal of an Item (tags of Item: omitempty on method, path, children)
MarshalItem(it) ==
    LET full == [type |-> CoerceUTF8(it.type), name |-> CoerceUTF8(it.name),
                 method |-> CoerceUTF8(it.method), path |-> CoerceUTF8(it.path),
                 children |-> CoerceSeq(it.children)]
        keys == {"type", "name"}
                  \cup (IF it.method # "" THEN {"method"} ELSE {})
                  \cup (IF it.path # "" THEN {"path"} ELSE {})
                  \cup (IF Len(it.children) > 0 THEN {"children"} ELSE {})
    IN [k \in keys |-> full[k]]

\* json.MarshalIndent of a RequestsConfig; a nil Values map is written as
\* null, which reads back like a missing key
MarshalConfig(cfg) ==
    LET full == [version |-> cfg.version,
                 values |-> [k \in DOMAIN cfg.values |-> MarshalItem(cfg.values[k])],
                 rootOrder |-> CoerceSeq(cfg.rootOrder)]
        keys == {"version"}
                  \cup (IF cfg.nilValues THEN {} ELSE {"values"})
                  \cup (IF Len(cfg.rootOrder) > 0 THEN {"rootOrder"} ELSE {})
    IN [k \in keys |-> full[k]]

UnmarshalItem(obj) ==
    Item(IF "type" \in DOMAIN obj THEN obj.type ELSE "",
         IF "name" \in DOMAIN obj THEN obj.name ELSE "",
         IF "method" \in DOMAIN obj THEN obj.method ELSE "",
         IF "path" \in DOMAIN obj THEN obj.path ELSE "",
         IF "children" \in DOMAIN obj THEN obj.children ELSE <<>>)

\* json.Unmarshal into a zero RequestsConfig
UnmarshalConfig(doc) ==
    [version |-> IF "version" \in DOMAIN doc THEN doc.version ELSE 0,
     values |-> IF "values" \in DOMAIN doc
                THEN [k \in DOMAIN doc.values |-> UnmarshalItem(doc.values[k])]
                ELSE EmptyMap,
     rootOrder |-> IF "rootOrder" \in DOMAIN doc THEN doc.rootOrder ELSE <<>>,
     nilValues |-> "values" \notin DOMAIN doc]

(***************************************************************************)
(* The requests file: absent, a JSON document, or bytes that do not parse  *)
(* (what a failed os.WriteFile leaves after truncating the file).           *)
(***************************************************************************)
EmptyDoc == [k \in {} |-> 0]

FileAbsent == [kind |-> "absent", doc |-> EmptyDoc]
FileGarbage == [kind |-> "garbage", doc |-> EmptyDoc]
FileJSON(doc) == [kind |-> "json", doc |-> doc]

\* outcomes of os.WriteFile: written; failed before the file was opened;
\* failed after the file was truncated
WriteOutcomes == {"ok", "openfail", "partial"}

\* Save that reports success without writing the file
SaveNoWrite(cfg, file, out) ==
    LET c == IF cfg.version = 0 THEN [cfg EXCEPT !.version = CurrentVersion] ELSE cfg
    IN [err |-> "", cfg |-> c, file |-> file]

\* package-level Save: sets a zero version, marshals, os.WriteFile
Save(cfg, file, out) ==
    LET c == IF cfg.version = 0 THEN [cfg EXCEPT !.version = CurrentVersion] ELSE cfg
    IN [err |-> IF out = "ok" THEN "" ELSE "failed to write requests file",
        cfg |-> c,
        file |-> IF out = "ok" THEN FileJSON(MarshalConfig(c))
                 ELSE IF out = "partial" THEN FileGarbage
                 ELSE file]

Perms(S) ==
    {q \in [1..Cardinality(S) -> S] : \A i, j \in 1..Cardinality(S) : q[i] = q[j] => i = j}

\* MissingRoots without the test against the ids RootOrder already has
MissingRootsIgnoringOrder(cfg) ==
    {id \in DOMAIN cfg.values :
        /\ id \notin ReferencedIDs(cfg.values)
        /\ cfg.values[id].type = ItemTypeFolder}

\* the root folders migrateFromVersion(…, 1) appends to RootOrder
MissingRoots(cfg) ==
    {id \in DOMAIN cfg.values :
        /\ id \notin ReferencedIDs(cfg.values)
        /\ cfg.values[id].type = ItemTypeFolder
        /\ id \notin Range(cfg.rootOrder)}

\* a transition from version 1 that sets RootOrder to the roots it found
migrateFromVersionReplacesOrder(cfg, fromVersion, order) ==
    IF fromVersion = 0 THEN [err |-> "", cfg |-> cfg]
    ELSE IF fromVersion = 1
    THEN [err |-> "", cfg |-> [cfg EXCEPT !.rootOrder = order]]
    ELSE [err |-> "unknown migration", cfg |-> cfg]

\* order: the order in which the map iteration meets the missing roots
migrateFromVersion(cfg, fromVersion, order) ==
    IF fromVersion = 0 THEN [err |-> "", cfg |-> cfg]
    ELSE IF fromVersion = 1
    THEN [err |-> "", cfg |-> [cfg EXCEPT !.rootOrder = cfg.rootOrder \o order]]
    ELSE [err |-> "unknown migration", cfg |-> cfg]

RECURSIVE MigrateLoop(_, _, _)
\* for version := config.Version; version < CurrentVersion; version++
MigrateLoop(cfg, version, order) ==
    IF version >= CurrentVersion THEN [err |-> "", cfg |-> cfg]
    ELSE LET r == migrateFromVersion(cfg, version, order)
         IN IF r.err # "" THEN r ELSE MigrateLoop(r.cfg, version + 1, order)

\* migrateConfig without the assignment config.Version = CurrentVersion
migrateConfigKeepsVersion(cfg, file, order, out) ==
    LET c1 == IF cfg.version = 0 THEN [cfg EXCEPT !.version = 1] ELSE cfg
    IN IF c1.version < CurrentVersion
       THEN LET r == MigrateLoop(c1, c1.version, order)
            IN IF r.err # ""
               THEN [err |-> "failed to migrate", cfg |-> r.cfg, file |-> file]
               ELSE LET s == Save(r.cfg, file, out)
                    IN [err |-> "", cfg |-> s.cfg, file |-> s.file]
       ELSE [err |-> "", cfg |-> c1, file |-> file]

\* migrateConfig: the result, and the file after the Save whose error is ignored
migrateConfig(cfg, file, order, out) ==
    LET c1 == IF cfg.version = 0 THEN [cfg EXCEPT !.version = 1] ELSE cfg
    IN IF c1.version < CurrentVersion
       THEN LET r == MigrateLoop(c1, c1.version, order)
            IN IF r.err # ""
               THEN [err |-> "failed to migrate", cfg |-> r.cfg, file |-> file]
               ELSE LET c2 == [r.cfg EXCEPT !.version = CurrentVersion]
                        s == Save(c2, file, out)
                    IN [err |-> "", cfg |-> s.cfg, file |-> s.file]
       ELSE [err |-> "", cfg |-> c1, file |-> file]

\* package-level Load.  readOK: os.ReadFile succeeds; order and out as above.
Load(file, readOK, order, out) ==
    IF file.kind = "absent"
    THEN LET s == Save(NewRequestsConfig, file, out)
         IN IF s.err # ""
            THEN [err |-> "failed to create requests file", cfg |-> NewRequestsConfig,
                  file |-> s.file]
            ELSE [err |-> "", cfg |-> s.cfg, file |-> s.file]
    ELSE IF ~readOK
    THEN [err |-> "failed to read requests file", cfg |-> NewRequestsConfig, file |-> file]
    ELSE IF file.kind = "garbage"
    THEN [err |-> "failed to parse requests file", cfg |-> NewRequestsConfig, file |-> file]
    ELSE LET m == migrateConfig(UnmarshalConfig(file.doc), file, order, out)
         IN IF m.err # ""
            THEN [err |-> "failed to migrate requests config", cfg |-> m.cfg, file |-> m.file]
            ELSE IF ~Valid(m.cfg)
            THEN [err |-> "requests config validation failed", cfg |-> m.cfg,
                  file |-> m.file]
            ELSE [err |-> "", cfg |-> m.cfg, file |-> m.file]

\* the orders migration can append the missing roots in, for the document in file
LoadOrders(file) ==
    IF file.kind = "json"
    THEN LET c == UnmarshalConfig(file.doc)
         IN IF c.version \in {0, 1} THEN Perms(MissingRoots(c)) ELSE {<<>>}
    ELSE {<<>>}

(***************************************************************************)
(* State.                                                                  *)
(***************************************************************************)
VARIABLES
    loaded,     \* m.config # nil
    config,     \* *m.config (meaningful when loaded)
    file,       \* the requests file on disk
    timer,      \* the debounce timer: armed or not, with what it was armed for
    running,    \* callbacks whose timer fired and that have not run yet
    events,     \* notifications emitted so far, per name
    ret,        \* the call or step that happened last, with its result
    nops,       \* number of calls made after the start-up Load
    got,        \* a config some caller obtained from Get and still holds
    hist,       \* counters: commits, timer windows, debounced writes
    rt,         \* Save-then-Load of one configuration
    aw,         \* one run of the atomic file writer
    va,         \* one call of Validate on one configuration
    cc,         \* concurrent callers of one manager, one statement per step
    bm,         \* one generic BaseManager and the calls made to it
    em          \* the BaseManager-embedding requests Manager, one lock operation per step

vars == <<loaded, config, file, timer, running, events, ret, nops, got, hist, rt, aw, va,
          cc, bm, em>>

mgrVars == <<loaded, config, file, timer, running, events, ret, nops, got, hist>>

NoPatch == EmptyMap

Ret(op, err) ==
    [op |-> op, err |-> err, id |-> "", parent |-> "", name |-> "", method |-> "",
     path |-> "", patch |-> NoPatch, burst |-> 0, stale |-> FALSE]

TimerIdle == [armed |-> FALSE, snap |-> NewRequestsConfig, burst |-> 0, seq |-> 0]

NoGot == [has |-> FALSE, cfg |-> NewRequestsConfig, alias |-> {}]

RtIdle == [pc |-> "off", c |-> NewRequestsConfig, file |-> FileAbsent, from |-> 0,
           res |-> [err |-> "", cfg |-> NewRequestsConfig, file |-> FileAbsent]]

AwIdle == [pc |-> "off", old |-> <<>>, oldExists |-> FALSE, data |-> <<>>,
           dest |-> <<>>, destExists |-> FALSE, tmp |-> <<>>, tmpExists |-> FALSE,
           err |-> "", crashed |-> FALSE]

VaIdle == [pc |-> "off", c |-> NewRequestsConfig, err |-> "", stack |-> <<>>,
           visited |-> {}, todo |-> {}, run |-> 0, at |-> "",
           first |-> [err |-> "", at |-> ""]]

CcIdle == [pc |-> <<>>, mu |-> [w |-> "", r |-> {}], values |-> EmptyMap,
           parentOf |-> <<>>, parent |-> <<>>, copy |-> EmptyMap, res |-> <<>>,
           before |-> {}, disk |-> <<>>, rets |-> <<>>, armed |-> FALSE,
           payload |-> <<>>, log |-> <<>>]

EmIdle == [pc |-> "off", op |-> "none", parent |-> "", patch |-> EmptyMap, newId |-> "",
           mu |-> "", ctx |-> FALSE, lctx |-> FALSE, loaded |-> FALSE,
           config |-> NewRequestsConfig, events |-> [updated |-> 0, saved |-> 0, error |-> 0],
           armed |-> FALSE, tpc |-> "idle", disk |-> FileAbsent,
           ret |-> [op |-> "none", err |-> "", id |-> ""], n |-> 0]

BmIdle == [pc |-> "off", loaded |-> FALSE, config |-> [version |-> 0, theme |-> ""],
           events |-> [updated |-> 0, saved |-> 0, error |-> 0], armed |-> FALSE,
           ret |-> [op |-> "none", err |-> ""], n |-> 0,
           got |-> [version |-> 0, theme |-> ""]]

(***************************************************************************)
(* Documents the requests file can hold when the program starts.           *)
(***************************************************************************)
OneMap(id, it) == [k \in {id} |-> it]

DocTree ==
    MarshalConfig(RequestsConfig(2,
        [k \in {"i1", "i2"} |->
            IF k = "i1" THEN Folder("a", <<"i2">>) ELSE Request("a", "GET", "/x")],
        <<"i1">>))

DocChain ==
    MarshalConfig(RequestsConfig(2,
        [k \in {"i1", "i2", "i3"} |->
            IF k = "i1" THEN Folder("a", <<"i2">>)
            ELSE IF k = "i2" THEN Folder("a", <<"i3">>)
            ELSE Folder("a", <<>>)],
        <<>>))

\* a version-1 document: two root folders, no rootOrder
DocV1 ==
    MarshalConfig(RequestsConfig(1,
        [k \in {"i1", "i2"} |-> Folder("a", <<>>)], <<>>))

\* a document whose root item is a request: Validate rejects it
DocRootRequest ==
    MarshalConfig(RequestsConfig(2, OneMap("i1", Request("a", "GET", "/x")), <<>>))

InitFiles ==
    {FileAbsent, FileJSON(DocTree), FileJSON(DocChain), FileJSON(DocV1),
     FileJSON(DocRootRequest)}

MgrInit ==
    /\ loaded = FALSE
    /\ config = NewRequestsConfig
    /\ timer = TimerIdle
    /\ running = <<>>
    /\ events = [updated |-> 0, saved |-> 0, error |-> 0]
    /\ ret = Ret("none", "")
    /\ nops = 0
    /\ got = NoGot
    /\ hist = [commits |-> 0, windows |-> 0, writes |-> 0, savedSeq |-> 0, failSeq |-> 0]

Init ==
    /\ MgrInit
    /\ file \in InitFiles
    /\ rt = RtIdle
    /\ aw = AwIdle
    /\ va = VaIdle
    /\ cc = CcIdle
    /\ bm = BmIdle
    /\ em = EmIdle

(***************************************************************************)
(* Manager operations (manager.go, composition-based Manager).             *)
(***************************************************************************)
\* Manager.Get: a new map with the same Item values
Get == IF ~loaded THEN NewRequestsConfig ELSE config

\* the loop "for k, v := range values { mergedConfig.Values[k] = v }"
\* a merge that keeps only the keys of the patch
MergeValuesReplace(values, patch) == patch

MergeValues(values, patch) ==
    [k \in DOMAIN values \cup DOMAIN patch |->
        IF k \in DOMAIN patch THEN patch[k] ELSE values[k]]

\* Schedule that arms a new timer without stopping the pending one
ScheduleNoStop(t, r, snap, seq) ==
    [timer |-> [armed |-> TRUE, snap |-> snap, burst |-> 1, seq |-> seq],
     running |-> IF t.armed
                 THEN Append(r, [snap |-> t.snap, burst |-> t.burst, seq |-> t.seq])
                 ELSE r]

\* debounce.New(d)(fn): stop the pending timer, arm a new one with fn
Schedule(t, r, snap, seq) ==
    [timer |-> [armed |-> TRUE, snap |-> snap,
                burst |-> (IF t.armed THEN t.burst ELSE 0) + 1, seq |-> seq],
     running |-> r]

\* a commit: the updated notification, then the debounced save is scheduled
Commit(newConfig) ==
    LET s == Schedule(timer, running, newConfig, hist.commits + 1)
    IN /\ config' = newConfig
       /\ events' = [events EXCEPT !.updated = @ + 1]
       /\ timer' = s.timer
       /\ running' = s.running
       /\ hist' = [hist EXCEPT !.commits = @ + 1,
                               !.windows = IF timer.armed THEN @ ELSE @ + 1]

\* a Load that keeps the loaded flag but forgets the config when it fails
ManagerLoadDropsConfig(readOK, order, out) ==
    LET r == Load(file, readOK, order, out)
    IN /\ file' = r.file
       /\ ret' = Ret("Load", r.err)
       /\ IF r.err = ""
          THEN /\ config' = r.cfg
               /\ loaded' = TRUE
               /\ got' = [got EXCEPT !.alias = {}]
          ELSE /\ config' = NewRequestsConfig
               /\ UNCHANGED <<loaded, got>>
       /\ nops' = IF loaded THEN nops + 1 ELSE nops
       /\ UNCHANGED <<timer, running, events, hist, rt, aw, va, cc, bm, em>>

ManagerLoad(readOK, order, out) ==
    LET r == Load(file, readOK, order, out)
    IN /\ file' = r.file
       /\ ret' = Ret("Load", r.err)
       /\ IF r.err = ""
          THEN /\ config' = r.cfg
               /\ loaded' = TRUE
               /\ got' = [got EXCEPT !.alias = {}]
          ELSE UNCHANGED <<config, loaded, got>>
       /\ nops' = IF loaded THEN nops + 1 ELSE nops
       /\ UNCHANGED <<timer, running, events, hist, rt, aw, va, cc, bm, em>>

\* PatchValues that reports a validation failure on the error channel too
PatchValuesEmitsError(values) ==
    /\ nops' = nops + 1
    /\ IF ~loaded
       THEN /\ ret' = [Ret("PatchValues", "config is not loaded") EXCEPT !.patch = values]
            /\ UNCHANGED <<config, events, timer, running, hist, got>>
       ELSE LET merged == [config EXCEPT !.values = MergeValues(config.values, values)]
            IN /\ got' = [got EXCEPT !.alias = @ \ DOMAIN values]
               /\ IF ~Valid(merged)
                  THEN /\ config' = merged
                       /\ ret' = [Ret("PatchValues", "merged config validation failed")
                                    EXCEPT !.patch = values]
                       /\ events' = [events EXCEPT !.error = @ + 1]
                       /\ UNCHANGED <<timer, running, hist>>
                  ELSE /\ Commit(merged)
                       /\ ret' = [Ret("PatchValues", "") EXCEPT !.patch = values]
    /\ UNCHANGED <<loaded, file, rt, aw, va, cc, bm, em>>

PatchValues(values) ==
    /\ nops' = nops + 1
    /\ IF ~loaded
       THEN /\ ret' = [Ret("PatchValues", "config is not loaded") EXCEPT !.patch = values]
            /\ UNCHANGED <<config, events, timer, running, hist, got>>
       ELSE LET merged == [config EXCEPT !.values = MergeValues(config.values, values)]
            IN /\ got' = [got EXCEPT !.alias = @ \ DOMAIN values]
               /\ IF ~Valid(merged)
                  THEN \* mergedConfig.Values is the committed map itself: the
                       \* merge loop has already written into it
                       /\ config' = merged
                       /\ ret' = [Ret("PatchValues", "merged config validation failed")
                                    EXCEPT !.patch = values]
                       /\ UNCHANGED <<events, timer, running, hist>>
                  ELSE /\ Commit(merged)
                       /\ ret' = [Ret("PatchValues", "") EXCEPT !.patch = values]
    /\ UNCHANGED <<loaded, file, rt, aw, va, cc, bm, em>>

\* AddChild that puts the new id in front of the parent's children
AddChildPrepend(values, parentId, newId, newItem) ==
    LET parent == values[parentId]
    IN [k \in DOMAIN values \cup {newId} |->
          IF k = parentId
          THEN Item(parent.type, parent.name, "", "", <<newId>> \o parent.children)
          ELSE IF k = newId THEN newItem ELSE values[k]]

\* AddChild that appends the new id to the parent's children twice
AddChildAppendTwice(values, parentId, newId, newItem) ==
    LET parent == values[parentId]
    IN [k \in DOMAIN values \cup {newId} |->
          IF k = parentId
          THEN Item(parent.type, parent.name, "", "",
                    Append(Append(parent.children, newId), newId))
          ELSE IF k = newId THEN newItem ELSE values[k]]

\* values[newId] = newItem; values[parentId] = Item{Type, Name, Children + newId}
AddChild(values, parentId, newId, newItem) ==
    LET parent == values[parentId]
    IN [k \in DOMAIN values \cup {newId} |->
          IF k = parentId
          THEN Item(parent.type, parent.name, "", "", Append(parent.children, newId))
          ELSE IF k = newId THEN newItem ELSE values[k]]

\* ParentFound without the check of the parent's type
ParentFoundAnyType(parentId) == parentId \in DOMAIN config.values

\* the test "exists && parent.Type == ItemTypeFolder" of AddRequest and AddFolder
ParentFound(parentId) ==
    parentId \in DOMAIN config.values /\ config.values[parentId].type = ItemTypeFolder

\* the body AddRequest and AddFolder share; newId is the generated UUID
AddItem(op, parentId, newItem, newId) ==
    /\ nops' = nops + 1
    /\ LET r == [Ret(op, "") EXCEPT !.parent = parentId, !.name = newItem.name,
                                    !.method = newItem.method, !.path = newItem.path]
       IN IF ~loaded
          THEN /\ ret' = [r EXCEPT !.err = "config is not loaded"]
               /\ UNCHANGED <<config, events, timer, running, hist, got>>
          ELSE IF ~ParentFound(parentId)
          THEN /\ ret' = [r EXCEPT !.err = "parent folder not found"]
               /\ UNCHANGED <<config, events, timer, running, hist, got>>
          ELSE /\ newId \in IDs \ DOMAIN config.values
               /\ Commit([config EXCEPT
                            !.values = AddChild(config.values, parentId, newId, newItem)])
               /\ got' = [got EXCEPT !.alias = @ \ {parentId}]
               /\ ret' = [r EXCEPT !.id = newId]
    /\ UNCHANGED <<loaded, file, rt, aw, va, cc, bm, em>>

AddRequest(parentId, name, method, path, newId) ==
    AddItem("AddRequest", parentId, Request(name, method, path), newId)

AddFolder(parentId, name, newId) ==
    AddItem("AddFolder", parentId, Folder(name, <<>>), newId)

\* saveLocked: SaveJSONConfig with the version fix, then WriteFileAtomic,
\* which either replaces the file or leaves it as it was
saveLocked(cfg, f, ok) ==
    LET c == IF cfg.version = 0 THEN [cfg EXCEPT !.version = CurrentVersion] ELSE cfg
    IN [err |-> IF ok THEN "" ELSE "write failed",
        cfg |-> c,
        file |-> IF ok THEN FileJSON(MarshalConfig(c)) ELSE f]

\* Manager.Save without the test of m.config
ManagerSaveUnchecked(ok) ==
    /\ LET s == saveLocked(config, file, ok)
       IN /\ config' = s.cfg
          /\ file' = s.file
          /\ ret' = Ret("Save", s.err)
    /\ nops' = nops + 1
    /\ UNCHANGED <<loaded, timer, running, events, got, hist, rt, aw, va, cc, bm, em>>

\* Manager.Save
ManagerSave(ok) ==
    /\ IF ~loaded
       THEN /\ ret' = Ret("Save", "config is not loaded")
            /\ UNCHANGED <<config, file>>
       ELSE LET s == saveLocked(config, file, ok)
            IN /\ config' = s.cfg
               /\ file' = s.file
               /\ ret' = Ret("Save", s.err)
    /\ nops' = nops + 1
    /\ UNCHANGED <<loaded, timer, running, events, got, hist, rt, aw, va, cc, bm, em>>

\* TimerFire of a timer that expires without starting its callback
TimerFireLost ==
    /\ timer.armed
    /\ timer' = TimerIdle
    /\ ret' = Ret("TimerFire", "")
    /\ UNCHANGED <<loaded, config, file, running, events, nops, got, hist, rt, aw, va, cc, bm, em>>

\* the debounce timer expires: its callback starts and waits for the lock
TimerFire ==
    /\ timer.armed
    /\ running' = Append(running, [snap |-> timer.snap, burst |-> timer.burst,
                                   seq |-> timer.seq])
    /\ timer' = TimerIdle
    /\ ret' = Ret("TimerFire", "")
    /\ UNCHANGED <<loaded, config, file, events, nops, got, hist, rt, aw, va, cc, bm, em>>

\* SavePayload of a callback that captured the config when it was scheduled
SavePayloadSnapshot(cur, snap) == snap

\* what the callback hands to saveLocked: the config committed now (cur),
\* not the one committed when the save was scheduled (snap)
SavePayload(cur, snap) == cur

RemoveAt(q, i) == [j \in 1..(Len(q) - 1) |-> IF j < i THEN q[j] ELSE q[j + 1]]

\* SaveCallback that emits nothing when saveLocked fails
SaveCallbackSilent(i, ok) ==
    /\ i \in 1..Len(running)
    /\ loaded
    /\ LET cb == running[i]
           s == saveLocked(SavePayload(config, cb.snap), file, ok)
       IN /\ file' = s.file
          /\ config' = IF config.version = 0
                       THEN [config EXCEPT !.version = CurrentVersion] ELSE config
          /\ events' = IF s.err = "" THEN [events EXCEPT !.saved = @ + 1] ELSE events
          /\ ret' = [Ret("SaveCallback", s.err) EXCEPT
                        !.burst = cb.burst, !.stale = (cb.snap # config)]
          /\ hist' = [hist EXCEPT !.writes = @ + 1,
                         !.savedSeq = IF s.err = "" THEN hist.commits ELSE @,
                         !.failSeq = IF s.err = "" THEN @ ELSE hist.commits]
    /\ running' = RemoveAt(running, i)
    /\ UNCHANGED <<loaded, timer, nops, got, rt, aw, va, cc, bm, em>>

\* the scheduled callback: lock, saveLocked, EmitError or EmitSaved
SaveCallback(i, ok) ==
    /\ i \in 1..Len(running)
    /\ loaded
    /\ LET cb == running[i]
           s == saveLocked(SavePayload(config, cb.snap), file, ok)
       IN /\ file' = s.file
          /\ config' = IF config.version = 0
                       THEN [config EXCEPT !.version = CurrentVersion] ELSE config
          /\ events' = IF s.err = "" THEN [events EXCEPT !.saved = @ + 1]
                       ELSE [events EXCEPT !.error = @ + 1]
          /\ ret' = [Ret("SaveCallback", s.err) EXCEPT
                        !.burst = cb.burst, !.stale = (cb.snap # config)]
          /\ hist' = [hist EXCEPT !.writes = @ + 1,
                         !.savedSeq = IF s.err = "" THEN hist.commits ELSE @,
                         !.failSeq = IF s.err = "" THEN @ ELSE hist.commits]
    /\ running' = RemoveAt(running, i)
    /\ UNCHANGED <<loaded, timer, nops, got, rt, aw, va, cc, bm, em>>

(***************************************************************************)
(* A caller of Get and what it does with the result.  Get copies the map,  *)
(* not the Children slices of the items: got.alias is the set of ids whose *)
(* Children slice in got.cfg still shares its array with the manager's.    *)
(***************************************************************************)
GetOf(l, c) == IF ~l THEN NewRequestsConfig ELSE c

ManagerGet ==
    /\ got' = [has |-> TRUE, cfg |-> Get,
               alias |-> IF loaded THEN DOMAIN config.values ELSE {}]
    /\ ret' = Ret("Get", "")
    /\ nops' = nops + 1
    /\ UNCHANGED <<loaded, config, file, timer, running, events, hist, rt, aw, va, cc, bm, em>>

\* the caller stores an item in the map it got: cfg.Values[k] = it
GotSetEntry(k, it) ==
    /\ got.has
    /\ nops' = nops + 1
    /\ got' = [got EXCEPT !.cfg.values = MergeValues(@, OneMap(k, it)),
                          !.alias = @ \ {k}]
    /\ ret' = [Ret("GotSetEntry", "") EXCEPT !.id = k]
    /\ UNCHANGED <<loaded, config, file, timer, running, events, hist, rt, aw, va, cc, bm, em>>

\* the caller assigns an element of a children list: cfg.Values[k].Children[i] = v
GotSetChild(k, i, v) ==
    /\ got.has
    /\ k \in DOMAIN got.cfg.values
    /\ i \in 1..Len(got.cfg.values[k].children)
    /\ nops' = nops + 1
    /\ got' = [got EXCEPT !.cfg.values[k].children[i] = v]
    /\ config' = IF k \in got.alias
                 THEN [config EXCEPT !.values[k].children[i] = v]
                 ELSE config
    /\ ret' = [Ret("GotSetChild", "") EXCEPT !.id = k]
    /\ UNCHANGED <<loaded, file, timer, running, events, hist, rt, aw, va, cc, bm, em>>

(***************************************************************************)
(* Specification of the manager: every operation, with the arguments       *)
(* below, at most MaxOps calls after the start-up Load.                    *)
(***************************************************************************)
\* ids a caller sends a one-entry patch for: an item of every document, and
\* an id no document has
PatchIds == {"i1", "i4"}

\* items a caller sends for id: an empty folder, and the item of the
\* request that lists itself as its child
PatchItems(id) == {Folder("a", <<>>), Item(ItemTypeRequest, "a", "", "", <<id>>)}

\* (name, method, path) arguments of AddRequest
RequestArgs == {<<"a", "GET", "/x">>, <<"", "GET", "/x">>, <<"a", "", "/x">>}

Budget == nops < MaxOps

\* Load at start-up is repeated until it succeeds; a later Load is a call
\* like any other
DoLoad ==
    /\ ~loaded \/ Budget
    /\ \E readOK \in BOOLEAN, order \in LoadOrders(file), out \in WriteOutcomes :
          ManagerLoad(readOK, order, out)

DoPatch ==
    /\ Budget
    /\ \E id \in PatchIds : \E it \in PatchItems(id) : PatchValues(OneMap(id, it))

DoRename ==
    /\ Budget
    /\ \E id \in DOMAIN config.values : \E n \in {"b", ""} \ {config.values[id].name} :
          PatchValues(OneMap(id, [config.values[id] EXCEPT !.name = n]))

DoAddRequest ==
    /\ Budget
    /\ \E parentId \in IDs, a \in RequestArgs, newId \in IDs :
          AddRequest(parentId, a[1], a[2], a[3], newId)

DoAddFolder ==
    /\ Budget
    /\ \E parentId \in IDs, n \in {"a", ""}, newId \in IDs : AddFolder(parentId, n, newId)

DoSave == Budget /\ \E ok \in BOOLEAN : ManagerSave(ok)

DoGet == Budget /\ ManagerGet

DoGotSetEntry == Budget /\ \E k \in PatchIds : GotSetEntry(k, Folder("b", <<>>))

DoGotSetChild == Budget /\ \E k \in IDs : GotSetChild(k, 1, "i4")

DoSaveCallback == \E i \in 1..Len(running), ok \in BOOLEAN : SaveCallback(i, ok)

Next ==
    \/ DoLoad
    \/ DoPatch
    \/ DoRename
    \/ DoAddRequest
    \/ DoAddFolder
    \/ DoSave
    \/ DoGet
    \/ DoGotSetEntry
    \/ DoGotSetChild
    \/ TimerFire
    \/ DoSaveCallback

Spec == Init /\ [][Next]_vars

(***************************************************************************)
(* Specification of the save pipeline: the start-up Load of one document,  *)
(* then at most MaxBurst calls (renames, an AddRequest, a rejected patch)  *)
(* interleaved with the debounce timer and its callbacks.                  *)
(***************************************************************************)
SaveInit ==
    /\ MgrInit
    /\ file = FileJSON(DocTree)
    /\ rt = RtIdle
    /\ aw = AwIdle
    /\ va = VaIdle
    /\ cc = CcIdle
    /\ bm = BmIdle
    /\ em = EmIdle

BurstBudget == nops < MaxBurst

StartupLoad ==
    /\ ~loaded
    /\ \E readOK \in BOOLEAN : ManagerLoad(readOK, <<>>, "ok")

\* Rename of an item through PatchValues: the item with another name
Rename ==
    /\ BurstBudget
    /\ loaded
    /\ \E n \in {"b", "c"} \ {config.values["i1"].name} :
          PatchValues(OneMap("i1", [config.values["i1"] EXCEPT !.name = n]))

AddOne ==
    /\ BurstBudget
    /\ \E newId \in IDs : AddRequest("i1", "a", "GET", "/x", newId)

RejectedPatch ==
    /\ BurstBudget
    /\ PatchValues(OneMap("i4", Item(ItemTypeRequest, "a", "", "", <<"i4">>)))

SaveNext ==
    \/ StartupLoad
    \/ Rename
    \/ AddOne
    \/ RejectedPatch
    \/ TimerFire
    \/ DoSaveCallback

SaveSpec == SaveInit /\ [][SaveNext]_vars

\* The runtime fires an armed timer, and a goroutine waiting for the mutex
\* gets it (sync.Mutex hands the lock to starving waiters).
FairSaveSpec == SaveSpec /\ WF_vars(TimerFire) /\ WF_vars(DoSaveCallback)

(***************************************************************************)
(* Save then Load of one configuration (package-level Save and Load).      *)
(***************************************************************************)
RtFolders ==
    {Folder(n, ch) : n \in {"a", BadUtf8, ""},
                     ch \in {<<>>, <<"i2">>, <<"i2", "i3">>, <<"i3", "i2">>}}

RtItems ==
    {Item(ItemTypeRequest, "a", m, p, <<>>) : m \in {"GET", "get", ""}, p \in {"/x", ""}}
    \cup {Folder("a", <<>>), Folder("a", <<"i3">>)}

RtLeaves == {Request("a", "GET", "/x"), Folder("a", <<>>)}

RtMaps ==
    {EmptyMap}
    \cup {OneMap("i1", f) : f \in RtFolders}
    \cup {[k \in {"i1", "i2"} |-> IF k = "i1" THEN f ELSE x] :
             f \in RtFolders, x \in RtItems}
    \cup {[k \in {"i1", "i2", "i3"} |-> IF k = "i1" THEN f ELSE IF k = "i2" THEN x ELSE y] :
             f \in RtFolders, x \in RtItems, y \in RtLeaves}

RtConfigs ==
    {RequestsConfig(v, m, ro) : v \in 0..(CurrentVersion + 1), m \in RtMaps,
                                ro \in {<<>>, <<"i1">>}}

RtInit ==
    /\ MgrInit
    /\ file = FileAbsent
    /\ aw = AwIdle
    /\ va = VaIdle
    /\ cc = CcIdle
    /\ bm = BmIdle
    /\ em = EmIdle
    /\ rt \in {[RtIdle EXCEPT !.pc = "start", !.c = c] : c \in RtConfigs}

RtSave(out) ==
    /\ rt.pc = "start"
    /\ LET s == Save(rt.c, rt.file, out)
       IN rt' = [rt EXCEPT !.pc = IF s.err = "" THEN "saved" ELSE "savefailed",
                           !.file = s.file]
    /\ UNCHANGED <<mgrVars, aw, va, cc, bm, em>>

RtLoad(readOK, order, out) ==
    /\ rt.pc = "saved"
    /\ LET r == Load(rt.file, readOK, order, out)
       IN rt' = [rt EXCEPT !.pc = IF readOK THEN "loaded" ELSE "readfailed",
                           !.res = r, !.file = r.file]
    /\ UNCHANGED <<mgrVars, aw, va, cc, bm, em>>

\* migrateConfig(&c) on the configuration itself
RtMigrate(order, out) ==
    /\ rt.pc = "start"
    /\ rt' = [rt EXCEPT !.pc = "migrated",
                        !.res = migrateConfig(rt.c, rt.file, order, out)]
    /\ UNCHANGED <<mgrVars, aw, va, cc, bm, em>>

RtDoMigrate ==
    \E order \in (IF rt.c.version \in {0, 1} THEN Perms(MissingRoots(rt.c)) ELSE {<<>>}) :
       \E out \in WriteOutcomes : RtMigrate(order, out)

RtDoSave == \E out \in WriteOutcomes : RtSave(out)

RtDoLoad ==
    \E readOK \in BOOLEAN, order \in LoadOrders(rt.file), out \in WriteOutcomes :
        RtLoad(readOK, order, out)

RtNext == RtDoSave \/ RtDoLoad \/ RtDoMigrate

RtSpec == RtInit /\ [][RtNext]_vars

(***************************************************************************)
(* One migration transition applied to a configuration, and then applied   *)
(* once more to its result.                                                *)
(***************************************************************************)
MgInit ==
    /\ MgrInit
    /\ file = FileAbsent
    /\ aw = AwIdle
    /\ va = VaIdle
    /\ cc = CcIdle
    /\ bm = BmIdle
    /\ em = EmIdle
    /\ rt \in {[RtIdle EXCEPT !.pc = "transition", !.c = c, !.res.cfg = c] :
                  c \in RtConfigs}

\* the configuration the next call of migrateFromVersion is given
MgCurrent == IF rt.pc = "once" THEN rt.res.cfg ELSE rt.c

\* err := migrateFromVersion(&c, fromVersion); the second call repeats the
\* transition of the first on what the first left
MgApply(fromVersion, order) ==
    /\ rt.pc \in {"transition", "once"}
    /\ rt.pc = "once" => (rt.res.err = "" /\ fromVersion = rt.from)
    /\ LET r == migrateFromVersion(MgCurrent, fromVersion, order)
       IN rt' = [rt EXCEPT !.pc = IF rt.pc = "once" THEN "twice" ELSE "once",
                           !.c = MgCurrent,
                           !.from = fromVersion,
                           !.res = [err |-> r.err, cfg |-> r.cfg, file |-> rt.file]]
    /\ UNCHANGED <<mgrVars, aw, va, cc, bm, em>>

MgDoApply ==
    \E fromVersion \in -1..(CurrentVersion + 1) :
       \E order \in (IF fromVersion = 1 THEN Perms(MissingRoots(MgCurrent)) ELSE {<<>>}) :
          MgApply(fromVersion, order)

MgNext == MgDoApply

MgSpec == MgInit /\ [][MgNext]_vars

(***************************************************************************)
(* The atomic file writer, one system call per step (WriteFileAtomic of    *)
(* configutil, the same code as FileWriter.WriteAtomic), with a failure of *)
(* each call and a crash of the process between any two of them.           *)
(***************************************************************************)
Bytes == {0, 1}

Contents == UNION {[1..n -> Bytes] : n \in 0..MaxLen}

AwInit ==
    /\ MgrInit
    /\ file = FileAbsent
    /\ rt = RtIdle
    /\ va = VaIdle
    /\ cc = CcIdle
    /\ bm = BmIdle
    /\ em = EmIdle
    /\ aw \in {[AwIdle EXCEPT !.pc = "start", !.old = o, !.oldExists = e,
                              !.dest = o, !.destExists = e, !.data = d] :
                  o \in Contents, e \in BOOLEAN, d \in Contents}
    /\ aw.oldExists \/ aw.old = <<>>

AwFail(a, msg) == [a EXCEPT !.pc = "cleanup", !.err = msg]

\* EnsureDir
AwEnsureDir(ok) ==
    /\ aw.pc = "start"
    /\ aw' = IF ok THEN [aw EXCEPT !.pc = "create"]
             ELSE [aw EXCEPT !.pc = "done", !.err = "failed to create directory"]
    /\ UNCHANGED mgrVars /\ UNCHANGED <<rt, va, cc, bm, em>>

\* os.CreateTemp; the deferred clean-up is registered only when it succeeds
AwCreateTemp(ok) ==
    /\ aw.pc = "create"
    /\ aw' = IF ok THEN [aw EXCEPT !.pc = "write", !.tmpExists = TRUE, !.tmp = <<>>]
             ELSE [aw EXCEPT !.pc = "done", !.err = "failed to create temp file"]
    /\ UNCHANGED mgrVars /\ UNCHANGED <<rt, va, cc, bm, em>>

\* TempWrite that writes to the destination itself, as os.WriteFile does
TempWriteInPlace(a, n) == [a EXCEPT !.dest = SubSeq(a.data, 1, n), !.destExists = TRUE]

\* tmpFile.Write put the first n bytes of data into the file it writes to
TempWrite(a, n) == [a EXCEPT !.tmp = SubSeq(a.data, 1, n)]

\* tmpFile.Write: all bytes, or an error after the first n
AwWrite(n, ok) ==
    /\ aw.pc = "write"
    /\ n \in 0..Len(aw.data)
    /\ ok => n = Len(aw.data)
    /\ aw' = IF ok THEN [TempWrite(aw, n) EXCEPT !.pc = "sync"]
             ELSE AwFail(TempWrite(aw, n), "failed to write temp file")
    /\ UNCHANGED mgrVars /\ UNCHANGED <<rt, va, cc, bm, em>>

\* tmpFile.Sync
AwSync(ok) ==
    /\ aw.pc = "sync"
    /\ aw' = IF ok THEN [aw EXCEPT !.pc = "close"] ELSE AwFail(aw, "failed to sync temp file")
    /\ UNCHANGED mgrVars /\ UNCHANGED <<rt, va, cc, bm, em>>

\* tmpFile.Close
AwClose(ok) ==
    /\ aw.pc = "close"
    /\ aw' = IF ok THEN [aw EXCEPT !.pc = "chmod"] ELSE AwFail(aw, "failed to close temp file")
    /\ UNCHANGED mgrVars /\ UNCHANGED <<rt, va, cc, bm, em>>

\* os.Chmod(tmpPath, perm)
AwChmod(ok) ==
    /\ aw.pc = "chmod"
    /\ aw' = IF ok THEN [aw EXCEPT !.pc = "rename"] ELSE AwFail(aw, "failed to chmod temp file")
    /\ UNCHANGED mgrVars /\ UNCHANGED <<rt, va, cc, bm, em>>

\* os.Rename(tmpPath, filename)
AwRename(ok) ==
    /\ aw.pc = "rename"
    /\ aw' = IF ok
             THEN [aw EXCEPT !.pc = "cleanup", !.dest = aw.tmp, !.destExists = TRUE,
                             !.tmpExists = FALSE, !.tmp = <<>>]
             ELSE AwFail(aw, "failed to rename temp file")
    /\ UNCHANGED mgrVars /\ UNCHANGED <<rt, va, cc, bm, em>>

\* a return without the deferred removal of the temporary file
AwCleanupKeepsTemp ==
    /\ aw.pc = "cleanup"
    /\ aw' = [aw EXCEPT !.pc = "done"]
    /\ UNCHANGED mgrVars /\ UNCHANGED <<rt, va, cc, bm, em>>

\* the deferred tmpFile.Close and os.Remove(tmpPath)
AwCleanup ==
    /\ aw.pc = "cleanup"
    /\ aw' = [aw EXCEPT !.pc = "done", !.tmpExists = FALSE, !.tmp = <<>>]
    /\ UNCHANGED mgrVars /\ UNCHANGED <<rt, va, cc, bm, em>>

\* the process dies between two steps: nothing is cleaned up
AwCrash ==
    /\ aw.pc \in {"create", "write", "sync", "close", "chmod", "rename", "cleanup"}
    /\ aw' = [aw EXCEPT !.pc = "crashed", !.crashed = TRUE]
    /\ UNCHANGED mgrVars /\ UNCHANGED <<rt, va, cc, bm, em>>

AwDoEnsureDir == \E ok \in BOOLEAN : AwEnsureDir(ok)
AwDoCreateTemp == \E ok \in BOOLEAN : AwCreateTemp(ok)
AwDoWrite == \E n \in 0..MaxLen, ok \in BOOLEAN : AwWrite(n, ok)
AwDoSync == \E ok \in BOOLEAN : AwSync(ok)
AwDoClose == \E ok \in BOOLEAN : AwClose(ok)
AwDoChmod == \E ok \in BOOLEAN : AwChmod(ok)
AwDoRename == \E ok \in BOOLEAN : AwRename(ok)

AwNext ==
    \/ AwDoEnsureDir
    \/ AwDoCreateTemp
    \/ AwDoWrite
    \/ AwDoSync
    \/ AwDoClose
    \/ AwDoChmod
    \/ AwDoRename
    \/ AwCleanup
    \/ AwCrash

AwSpec == AwInit /\ [][AwNext]_vars

(***************************************************************************)
(* Validate applied to one configuration.                                  *)
(***************************************************************************)
AllIds == <<"i1", "i2", "i3", "i4", "i5", "i6">>

VaIds == {AllIds[i] : i \in 1..MaxItems}

\* ids a children list can hold: the ids above and one no configuration has
VaRefs == VaIds \cup {"zz"}

\* children lists of the first item: none, one id, two different ids
VaPairs == {<<>>} \cup {<<x>> : x \in VaRefs}
             \cup {q \in VaRefs \X VaRefs : q[1] # q[2]}

\* children lists of the other items: none or one id
VaSingles == {<<>>} \cup {<<x>> : x \in VaRefs}

\* well-formed items: a request, or a folder with one of the lists chs
VaTreeItems(chs) == {Request("a", "GET", "/x")} \cup {Folder("a", ch) : ch \in chs}

\* the configuration of n well-formed items i1..in: i1 is a, the others are g
VaTree(n, a, g) ==
    RequestsConfig(CurrentVersion,
        [k \in {AllIds[i] : i \in 1..n} |-> IF k = "i1" THEN a ELSE g[k]], <<>>)

\* items with any combination of fields, over two ids
VaFieldItems ==
    {Item(t, n, m, q, ch) :
        t \in {ItemTypeRequest, ItemTypeFolder, "other"}, n \in {"", "a"},
        m \in {"", "GET", "BAD"}, q \in {"", "/x"},
        ch \in {<<>>, <<"i1">>, <<"i2">>}}

VaFields ==
    {RequestsConfig(CurrentVersion, m, <<>>) : m \in [{"i1", "i2"} -> VaFieldItems]}

\* a well-formed tree under the versions a document can carry, and a
\* document without "values"
VaVersions ==
    {RequestsConfig(v, UnmarshalConfig(DocTree).values, <<"i1">>) : v \in 0..(CurrentVersion + 1)}
      \cup {[NewRequestsConfig EXCEPT !.nilValues = TRUE]}

VaStart(c) == va = [VaIdle EXCEPT !.pc = "start", !.c = c]

VaInit ==
    /\ MgrInit
    /\ file = FileAbsent
    /\ rt = RtIdle
    /\ aw = AwIdle
    /\ cc = CcIdle
    /\ bm = BmIdle
    /\ em = EmIdle
    /\ \/ \E n \in 1..MaxItems :
             \E a \in VaTreeItems(VaPairs) :
                \E g \in [{AllIds[i] : i \in 2..n} -> VaTreeItems(VaSingles)] :
                   VaStart(VaTree(n, a, g))
       \/ \E c \in VaFields \cup VaVersions \cup {NewRequestsConfig} : VaStart(c)

\* err := Validate(&c); "" stands for nil
VaValidate ==
    /\ va.pc = "start"
    /\ \E e \in (IF Valid(va.c) THEN {""} ELSE Validate(va.c)) :
          va' = [va EXCEPT !.pc = "done", !.err = e]
    /\ UNCHANGED <<mgrVars, rt, aw, cc, bm, em>>

VaNext == VaValidate

VaSpec == VaInit /\ [][VaNext]_vars

(***************************************************************************)
(* validateMaxNestingDepth as the machine runs it: one call, one loop      *)
(* iteration or one return of validateFolderDepth per step.  va.stack is   *)
(* the stack of its calls, [id, depth, i]: i = 0 before the body has run,  *)
(* then the index of the next child; va.todo is the set of root folders    *)
(* the outer loop has not reached yet.                                     *)
(***************************************************************************)
\* the root level folders the outer loop starts a walk from
WkRoots(allItems) ==
    {r \in DOMAIN allItems :
        r \notin ReferencedIDs(allItems) /\ allItems[r].type = ItemTypeFolder}

WkStart(c) ==
    va = [VaIdle EXCEPT !.pc = "walk", !.c = c, !.todo = WkRoots(c.values)]

\* children lists of the items other than i1: none or one id of the
\* configuration's range; the id no configuration has is left to i1
WkSingles == {<<>>} \cup {<<x>> : x \in VaIds}

WkInit ==
    /\ MgrInit
    /\ file = FileAbsent
    /\ rt = RtIdle
    /\ aw = AwIdle
    /\ cc = CcIdle
    /\ bm = BmIdle
    /\ em = EmIdle
    /\ \E n \in 1..MaxItems :
          \E a \in VaTreeItems(VaPairs) :
             \E g \in [{AllIds[i] : i \in 2..n} -> VaTreeItems(WkSingles)] :
                WkStart(VaTree(n, a, g))

WkRest == UNCHANGED <<mgrVars, rt, aw, cc, bm, em>>

WkTop == va.stack[Len(va.stack)]

\* return err: every call on the stack returns it in turn
WkFail(msg) == va' = [va EXCEPT !.pc = "done", !.err = msg, !.stack = <<>>,
                                !.visited = {}]

\* return nil of the innermost call, with its deferred delete(visited, id)
WkPop ==
    va' = [va EXCEPT !.stack = SubSeq(@, 1, Len(@) - 1), !.visited = @ \ {WkTop.id}]

\* the outer loop takes the next root folder, in map order, or ends
WkNextRoot ==
    /\ va.pc = "walk"
    /\ va.stack = <<>>
    /\ IF va.todo = {}
       THEN va' = [va EXCEPT !.pc = "done"]
       ELSE \E r \in va.todo :
               va' = [va EXCEPT !.todo = @ \ {r},
                                !.stack = <<[id |-> r, depth |-> 0, i |-> 0]>>]
    /\ WkRest

\* a walk that hands the depth on to a folder child unchanged and does not
\* test it before the call
WkChildNoIncrement ==
    /\ va.pc = "walk"
    /\ va.stack # <<>>
    /\ WkTop.i > 0
    /\ LET allItems == va.c.values
           f == WkTop
           ch == allItems[f.id].children
       IN IF f.i > Len(ch) THEN WkPop
          ELSE IF ch[f.i] \notin DOMAIN allItems
          THEN va' = [va EXCEPT !.stack[Len(va.stack)].i = @ + 1]
          ELSE va' = [va EXCEPT
                        !.stack = Append([@ EXCEPT ![Len(va.stack)].i = f.i + 1],
                                         [id |-> ch[f.i], depth |-> f.depth, i |-> 0])]
    /\ WkRest

\* the body of validateFolderDepth up to the loop over the children
WkEnter ==
    /\ va.pc = "walk"
    /\ va.stack # <<>>
    /\ WkTop.i = 0
    /\ LET allItems == va.c.values
           f == WkTop
       IN IF f.id \in va.visited
          THEN WkFail("circular reference detected in folder depth validation")
          ELSE IF f.id \notin DOMAIN allItems
          THEN WkFail("item not found during depth validation")
          ELSE IF allItems[f.id].type # ItemTypeFolder
          THEN va' = [va EXCEPT !.stack = SubSeq(@, 1, Len(@) - 1)]
          ELSE IF f.depth >= MaxFolderDepth
          THEN WkFail("folder exceeds maximum nesting depth")
          ELSE va' = [va EXCEPT !.stack[Len(va.stack)].i = 1,
                                !.visited = @ \cup {f.id}]
    /\ WkRest

\* one iteration of the loop over item.Children, or its end
WkChild ==
    /\ va.pc = "walk"
    /\ va.stack # <<>>
    /\ WkTop.i > 0
    /\ LET allItems == va.c.values
           f == WkTop
           ch == allItems[f.id].children
       IN IF f.i > Len(ch) THEN WkPop
          ELSE IF ch[f.i] \notin DOMAIN allItems
          THEN va' = [va EXCEPT !.stack[Len(va.stack)].i = @ + 1]
          ELSE IF allItems[ch[f.i]].type = ItemTypeFolder /\ f.depth + 1 >= MaxFolderDepth
          THEN WkFail("folder cannot contain nested folders")
          ELSE va' = [va EXCEPT
                        !.stack = Append([@ EXCEPT ![Len(va.stack)].i = f.i + 1],
                                         [id |-> ch[f.i],
                                          depth |-> IF allItems[ch[f.i]].type = ItemTypeFolder
                                                    THEN f.depth + 1 ELSE f.depth,
                                          i |-> 0])]
    /\ WkRest

WkNext == WkNextRoot \/ WkEnter \/ WkChild

WkSpec == WkInit /\ [][WkNext]_vars

\* the walk is a sequential program: it keeps running until it returns
FairWkSpec == WkSpec /\ WF_vars(WkNext)

(***************************************************************************)
(* Load of the documents the requests file can hold, of any version.       *)
(***************************************************************************)
\* configurations of a version no migration knows
LdUnknown ==
    {RequestsConfig(v, m, <<>>) :
        v \in {-1, CurrentVersion + 1, CurrentVersion + 2},
        m \in {EmptyMap, UnmarshalConfig(DocTree).values}}

LdFiles ==
    {FileAbsent, FileGarbage}
      \cup {FileJSON(MarshalConfig(c)) : c \in RtConfigs \cup LdUnknown}

LdInit ==
    /\ MgrInit
    /\ file \in LdFiles
    /\ rt = RtIdle
    /\ aw = AwIdle
    /\ va = VaIdle
    /\ cc = CcIdle
    /\ bm = BmIdle
    /\ em = EmIdle

\* a mutation called before any Load has succeeded
LdEarlyPatch == ~loaded /\ DoPatch

LdNext == DoLoad \/ LdEarlyPatch

LdSpec == LdInit /\ [][LdNext]_vars

(***************************************************************************)
(* Concurrent callers of one loaded manager: two adders, one PatchValues,  *)
(* one Get and the callbacks of the debounce timer, one statement of       *)
(* manager.go per step, with m.mu as a readers-writer lock.                *)
(***************************************************************************)
CcAdders == {"a1", "a2"}

CcPatchers == {"p1"}

CcGetters == {"g1"}

CcSavers == {"s1", "s2", "s3"}

CcMutators == CcAdders \cup CcPatchers

CcThreads == CcMutators \cup CcGetters \cup CcSavers

\* uuid.New().String() of each adder
CcNewId(t) == IF t = "a1" THEN "n1" ELSE "n2"

\* a1 calls AddRequest, a2 calls AddFolder
CcNewItem(t) == IF t = "a1" THEN Request("a", "GET", "/x") ELSE Folder("a", <<>>)

\* the patch of p1: a rename of the request i2
CcPatch == OneMap("i2", Request("b", "GET", "/x"))

CcRootOrder == <<"i1">>

CcConfig(values) == RequestsConfig(CurrentVersion, values, CcRootOrder)

\* a lock that never makes a caller wait
CcCanLockAlways(mu) == TRUE

\* sync.RWMutex.Lock can return
CcCanLock(mu) == mu.w = "" /\ mu.r = {}

\* sync.RWMutex.RLock can return
CcCanRLock(mu) == mu.w = ""

\* parent, exists := m.config.Values[parentId]; exists && parent.Type == folder
CcParentFound(values, parentId) ==
    parentId \in DOMAIN values /\ values[parentId].type = ItemTypeFolder

\* m.config.Values[newId] = newItem
CcInsert(values, newId, newItem) ==
    [k \in DOMAIN values \cup {newId} |-> IF k = newId THEN newItem ELSE values[k]]

\* children := copy of parent.Children + newId; m.config.Values[parentId] = Item{...}
CcLink(values, parentId, parent, newId) ==
    [k \in DOMAIN values \cup {parentId} |->
        IF k = parentId
        THEN Item(parent.type, parent.name, "", "", Append(parent.children, newId))
        ELSE values[k]]

CcInit ==
    /\ MgrInit
    /\ file = FileAbsent
    /\ rt = RtIdle
    /\ aw = AwIdle
    /\ va = VaIdle
    /\ bm = BmIdle
    /\ em = EmIdle
    /\ \E pa \in [CcAdders -> {"i1", "i2"}] :
          cc = [pc |-> [t \in CcThreads |-> "idle"],
                mu |-> [w |-> "", r |-> {}],
                values |-> UnmarshalConfig(DocTree).values,
                parentOf |-> pa,
                parent |-> [t \in CcAdders |-> Folder("", <<>>)],
                copy |-> EmptyMap,
                res |-> [t \in CcGetters |-> EmptyMap],
                before |-> {},
                disk |-> <<>>,
                rets |-> [t \in CcMutators |-> ""],
                armed |-> FALSE,
                payload |-> [t \in CcMutators |-> EmptyMap],
                log |-> <<>>]

CcRest == UNCHANGED <<mgrVars, rt, aw, va, bm, em>>

\* m.mu.Lock() of a mutation or of a timer callback
CcLock(t) ==
    /\ \/ t \in CcMutators /\ cc.pc[t] = "idle"
       \/ t \in CcSavers /\ cc.pc[t] = "fired"
    /\ CcCanLock(cc.mu)
    /\ cc' = [cc EXCEPT !.mu.w = t, !.pc[t] = "locked"]
    /\ CcRest

\* the lookup of the parent in AddRequest and AddFolder
CcLookup(t) ==
    /\ t \in CcAdders
    /\ cc.pc[t] = "locked"
    /\ IF CcParentFound(cc.values, cc.parentOf[t])
       THEN cc' = [cc EXCEPT !.pc[t] = "found", !.parent[t] = cc.values[cc.parentOf[t]]]
       ELSE cc' = [cc EXCEPT !.pc[t] = "refused", !.rets[t] = "parent folder not found"]
    /\ CcRest

CcDoInsert(t) ==
    /\ t \in CcAdders
    /\ cc.pc[t] = "found"
    /\ cc' = [cc EXCEPT !.pc[t] = "inserted",
                        !.values = CcInsert(cc.values, CcNewId(t), CcNewItem(t))]
    /\ CcRest

CcDoLink(t) ==
    /\ t \in CcAdders
    /\ cc.pc[t] = "inserted"
    /\ cc' = [cc EXCEPT !.pc[t] = "committed",
                        !.values = CcLink(cc.values, cc.parentOf[t], cc.parent[t],
                                          CcNewId(t)),
                        !.log = Append(@, <<"commit", t>>)]
    /\ CcRest

\* PatchValues: the struct copy and the merge loop, which writes into the
\* map the committed config holds
CcMerge(t) ==
    /\ t \in CcPatchers
    /\ cc.pc[t] = "locked"
    /\ cc' = [cc EXCEPT !.pc[t] = "merged", !.values = MergeValues(cc.values, CcPatch)]
    /\ CcRest

\* PatchValues: Validate, then m.config = &mergedConfig
CcValidate(t) ==
    /\ t \in CcPatchers
    /\ cc.pc[t] = "merged"
    /\ IF Valid(CcConfig(cc.values))
       THEN cc' = [cc EXCEPT !.pc[t] = "committed", !.log = Append(@, <<"commit", t>>)]
       ELSE cc' = [cc EXCEPT !.pc[t] = "refused",
                             !.rets[t] = "merged config validation failed"]
    /\ CcRest

\* EventsEmit / EmitUpdated of requests:updated
CcEmitUpdated(t) ==
    /\ t \in CcMutators
    /\ cc.pc[t] = "committed"
    /\ cc' = [cc EXCEPT !.pc[t] = "emitted", !.payload[t] = cc.values,
                        !.log = Append(@, <<"updated", t>>)]
    /\ CcRest

\* a Schedule that runs before the notification and in its place
CcScheduleUnannounced(t) ==
    /\ t \in CcMutators
    /\ cc.pc[t] = "committed"
    /\ cc' = [cc EXCEPT !.pc[t] = "scheduled", !.armed = TRUE,
                        !.log = Append(@, <<"schedule", t>>)]
    /\ CcRest

\* m.debounce.Schedule(fn)
CcSchedule(t) ==
    /\ t \in CcMutators
    /\ cc.pc[t] = "emitted"
    /\ cc' = [cc EXCEPT !.pc[t] = "scheduled", !.armed = TRUE,
                        !.log = Append(@, <<"schedule", t>>)]
    /\ CcRest

\* return, with the deferred m.mu.Unlock()
CcReturn(t) ==
    /\ t \in CcMutators
    /\ cc.pc[t] \in {"scheduled", "refused"}
    /\ cc' = [cc EXCEPT !.pc[t] = "done", !.mu.w = "",
                        !.log = Append(@, <<"return", t>>)]
    /\ CcRest

\* the debounce timer fires: its callback starts on its own goroutine
CcFire(s) ==
    /\ s \in CcSavers
    /\ cc.armed
    /\ cc.pc[s] = "idle"
    /\ cc' = [cc EXCEPT !.pc[s] = "fired", !.armed = FALSE]
    /\ CcRest

\* the callback: saveLocked writes the config committed now
CcSaveLocked(s, ok) ==
    /\ s \in CcSavers
    /\ cc.pc[s] = "locked"
    /\ IF ok
       THEN cc' = [cc EXCEPT !.pc[s] = "written",
                             !.disk = Append(@, [by |-> s, values |-> cc.values]),
                             !.log = Append(@, <<"write", s>>)]
       ELSE cc' = [cc EXCEPT !.pc[s] = "writefailed"]
    /\ CcRest

\* the callback: EmitSaved or EmitError, then the deferred Unlock
CcReport(s) ==
    /\ s \in CcSavers
    /\ cc.pc[s] \in {"written", "writefailed"}
    /\ cc' = [cc EXCEPT !.pc[s] = "done", !.mu.w = "",
                 !.log = Append(@, <<IF cc.pc[s] = "written" THEN "saved" ELSE "error",
                                     s>>)]
    /\ CcRest

\* Get: m.mu.RLock()
CcRLock(t) ==
    /\ t \in CcGetters
    /\ cc.pc[t] = "idle"
    /\ CcCanRLock(cc.mu)
    /\ cc' = [cc EXCEPT !.pc[t] = "rlocked", !.mu.r = @ \cup {t}, !.copy = EmptyMap,
                        !.before = {u \in CcMutators : cc.pc[u] = "done"}]
    /\ CcRest

\* Get: one iteration of "for k, v := range m.config.Values"
CcCopyEntry(t) ==
    /\ t \in CcGetters
    /\ cc.pc[t] = "rlocked"
    /\ \E k \in DOMAIN cc.values \ DOMAIN cc.copy :
          cc' = [cc EXCEPT !.copy = [j \in DOMAIN cc.copy \cup {k} |->
                                        IF j = k THEN cc.values[k] ELSE cc.copy[j]]]
    /\ CcRest

\* Get: the loop is over; return &configCopy with the deferred RUnlock
CcGetReturn(t) ==
    /\ t \in CcGetters
    /\ cc.pc[t] = "rlocked"
    /\ DOMAIN cc.values \subseteq DOMAIN cc.copy
    /\ cc' = [cc EXCEPT !.pc[t] = "done", !.mu.r = @ \ {t}, !.res[t] = cc.copy]
    /\ CcRest

CcNext ==
    \/ \E t \in CcThreads : CcLock(t)
    \/ \E t \in CcAdders : CcLookup(t)
    \/ \E t \in CcAdders : CcDoInsert(t)
    \/ \E t \in CcAdders : CcDoLink(t)
    \/ \E t \in CcPatchers : CcMerge(t)
    \/ \E t \in CcPatchers : CcValidate(t)
    \/ \E t \in CcMutators : CcEmitUpdated(t)
    \/ \E t \in CcMutators : CcSchedule(t)
    \/ \E t \in CcMutators : CcReturn(t)
    \/ \E s \in CcSavers : CcFire(s)
    \/ \E s \in CcSavers, ok \in BOOLEAN : CcSaveLocked(s, ok)
    \/ \E s \in CcSavers : CcReport(s)
    \/ \E t \in CcGetters : CcRLock(t)
    \/ \E t \in CcGetters : CcCopyEntry(t)
    \/ \E t \in CcGetters : CcGetReturn(t)

CcSpec == CcInit /\ [][CcNext]_vars

(***************************************************************************)
(* DeleteItem.  app.go forwards DeleteItem to the requests manager; the    *)
(* manager's method is not among the sources, and is taken from its        *)
(* contract: not-found if the id is absent; otherwise the item and, for a  *)
(* folder, its whole subtree are removed, the removed ids are scrubbed     *)
(* from every children list and from rootOrder, the result is validated,   *)
(* committed, published and a save is scheduled.                           *)
(***************************************************************************)
\* a collection that stops at the children of the deleted item
CollectSubtreeShallow(values, S) ==
    S \cup UNION {Range(values[k].children) : k \in S \cap DOMAIN values}

RECURSIVE CollectSubtree(_, _)
\* the ids of S and of everything below them
CollectSubtree(values, S) ==
    LET T == S \cup UNION {Range(values[k].children) : k \in S \cap DOMAIN values}
    IN IF T = S THEN S ELSE CollectSubtree(values, T)

RECURSIVE Scrub(_, _)
\* the list s without the ids of dead, in the same order
Scrub(s, dead) ==
    IF s = <<>> THEN <<>>
    ELSE IF Head(s) \in dead THEN Scrub(Tail(s), dead)
    ELSE <<Head(s)>> \o Scrub(Tail(s), dead)

\* the config without the subtree of id
DeleteFrom(cfg, id) ==
    LET dead == CollectSubtree(cfg.values, {id})
    IN [cfg EXCEPT
          !.values = [k \in DOMAIN cfg.values \ dead |->
                         [cfg.values[k] EXCEPT !.children = Scrub(@, dead)]],
          !.rootOrder = Scrub(@, dead)]

DeleteItem(id) ==
    /\ nops' = nops + 1
    /\ IF ~loaded
       THEN /\ ret' = [Ret("DeleteItem", "config is not loaded") EXCEPT !.id = id]
            /\ UNCHANGED <<config, events, timer, running, hist, got>>
       ELSE IF id \notin DOMAIN config.values
       THEN /\ ret' = [Ret("DeleteItem", "item not found") EXCEPT !.id = id]
            /\ UNCHANGED <<config, events, timer, running, hist, got>>
       ELSE IF ~Valid(DeleteFrom(config, id))
       THEN /\ ret' = [Ret("DeleteItem", "config validation failed") EXCEPT !.id = id]
            /\ UNCHANGED <<config, events, timer, running, hist, got>>
       ELSE /\ Commit(DeleteFrom(config, id))
            /\ got' = [got EXCEPT !.alias = @ \cap DOMAIN DeleteFrom(config, id).values]
            /\ ret' = [Ret("DeleteItem", "") EXCEPT !.id = id]
    /\ UNCHANGED <<loaded, file, rt, aw, va, cc, bm, em>>

\* the root items of a map, in the order of their ids
DlRoots(values) ==
    Scrub(SubSeq(AllIds, 1, MaxItems),
          {AllIds[i] : i \in 1..MaxItems} \ (DOMAIN values \ ReferencedIDs(values)))

\* a manager that has loaded a valid tree of at most MaxItems items
DlInit ==
    /\ loaded = TRUE
    /\ timer = TimerIdle
    /\ running = <<>>
    /\ events = [updated |-> 0, saved |-> 0, error |-> 0]
    /\ ret = Ret("none", "")
    /\ nops = 0
    /\ got = NoGot
    /\ hist = [commits |-> 0, windows |-> 0, writes |-> 0, savedSeq |-> 0, failSeq |-> 0]
    /\ rt = RtIdle
    /\ aw = AwIdle
    /\ va = VaIdle
    /\ cc = CcIdle
    /\ bm = BmIdle
    /\ em = EmIdle
    /\ \E n \in 1..MaxItems :
          \E a \in VaTreeItems(VaPairs) :
             \E g \in [{AllIds[i] : i \in 2..n} -> VaTreeItems(VaSingles)] :
                /\ Valid(VaTree(n, a, g))
                /\ config = [VaTree(n, a, g) EXCEPT
                                !.rootOrder = DlRoots(VaTree(n, a, g).values)]
    /\ file = FileJSON(MarshalConfig(config))

DlDelete ==
    /\ nops < 1
    /\ \E id \in VaRefs : DeleteItem(id)

DlNext == DlDelete

DlSpec == DlInit /\ [][DlNext]_vars

(***************************************************************************)
(* The generic BaseManager[T] (core/base.go), for a T with a version and   *)
(* one more field, built with a validator and the version-setting          *)
(* ensureFunc, and without a custom loader.                                *)
(***************************************************************************)
BmThemes == {"light", "dark", "bad"}

BmConfig(v, t) == [version |-> v, theme |-> t]

\* var zero T
BmZero == BmConfig(0, "")

\* opts.Validator: nil ("") or an error
BmValidator(c) == IF c.theme \in {"light", "dark"} THEN "" ELSE "invalid theme"

\* opts.EnsureFunc
BmEnsure(c) == IF c.version = 0 THEN [c EXCEPT !.version = BmCurrentVersion] ELSE c

\* deepCopy: json.Marshal then json.Unmarshal into a new T
BmDeepCopy(c) == [version |-> c.version, theme |-> c.theme]

\* the updaters a caller passes: one writes the theme (or nothing) through
\* the pointer it is given and returns err
BmUpdaters ==
    {[writes |-> w, theme |-> t, err |-> e] :
        w \in BOOLEAN, t \in BmThemes, e \in {"", "updater failed"}}

\* updater(b.config)
BmRunUpdater(c, u) == IF u.writes THEN [c EXCEPT !.theme = u.theme] ELSE c

BmInit ==
    /\ MgrInit
    /\ file = FileAbsent
    /\ rt = RtIdle
    /\ aw = AwIdle
    /\ va = VaIdle
    /\ cc = CcIdle
    /\ bm = [pc |-> "on", loaded |-> FALSE, config |-> BmZero,
             events |-> [updated |-> 0, saved |-> 0, error |-> 0],
             armed |-> FALSE, ret |-> [op |-> "none", err |-> ""], n |-> 0,
             got |-> BmZero]
    /\ em = EmIdle

BmRest == UNCHANGED <<mgrVars, rt, aw, va, cc, em>>

BmBudget == bm.n < MaxOps

\* Load with the default loader: storage.Load, ensureFunc, validator
BmLoad(ok, c) ==
    /\ ~bm.loaded \/ BmBudget
    /\ LET e == IF ~ok THEN "failed to load config"
                ELSE IF BmValidator(BmEnsure(c)) # "" THEN "config validation failed"
                ELSE ""
       IN bm' = [bm EXCEPT !.ret = [op |-> "Load", err |-> e],
                           !.n = IF bm.loaded THEN @ + 1 ELSE @,
                           !.loaded = IF e = "" THEN TRUE ELSE @,
                           !.config = IF e = "" THEN BmEnsure(c) ELSE @]
    /\ BmRest

\* Get: the zero value, or a deep copy of the config
BmGet ==
    /\ BmBudget
    /\ bm' = [bm EXCEPT !.ret = [op |-> "Get", err |-> ""], !.n = @ + 1,
                        !.got = IF bm.loaded THEN BmDeepCopy(bm.config) ELSE BmZero]
    /\ BmRest

\* UpdateConfig: updater, ensureFunc and validator all work on b.config
BmUpdateConfig(u) ==
    /\ BmBudget
    /\ IF ~bm.loaded
       THEN bm' = [bm EXCEPT !.ret = [op |-> "UpdateConfig", err |-> "config is not loaded"],
                             !.n = @ + 1]
       ELSE IF u.err # ""
       THEN bm' = [bm EXCEPT !.ret = [op |-> "UpdateConfig", err |-> u.err],
                             !.n = @ + 1,
                             !.config = BmRunUpdater(bm.config, u)]
       ELSE IF BmValidator(BmEnsure(BmRunUpdater(bm.config, u))) # ""
       THEN bm' = [bm EXCEPT !.ret = [op |-> "UpdateConfig",
                                      err |-> "config validation failed"],
                             !.n = @ + 1,
                             !.config = BmEnsure(BmRunUpdater(bm.config, u))]
       ELSE bm' = [bm EXCEPT !.ret = [op |-> "UpdateConfig", err |-> ""],
                             !.n = @ + 1,
                             !.config = BmEnsure(BmRunUpdater(bm.config, u)),
                             !.events.updated = @ + 1,
                             !.armed = TRUE]
    /\ BmRest

\* json.Marshal of a T: an object with the keys of its json tags
BmMarshal(c) == [version |-> c.version, theme |-> c.theme]

\* json.Unmarshal of an object into a new T; keys T does not have are dropped
BmUnmarshal(m) == BmConfig(m.version, m.theme)

\* storage.MergePatch: the config as a JSON object, every key of the patch
\* written over it, the result decoded into the target
BmMergePatch(c, patch) ==
    BmUnmarshal([k \in DOMAIN BmMarshal(c) \cup DOMAIN patch |->
                    IF k \in DOMAIN patch THEN patch[k] ELSE BmMarshal(c)[k]])

\* the patch maps a caller sends: any of the keys version, theme and a key
\* the config does not have
BmPatches ==
    {[theme |-> t] : t \in BmThemes}
      \cup {[version |-> v] : v \in 0..2}
      \cup {[version |-> v, theme |-> t] : v \in 0..2, t \in BmThemes}
      \cup {[other |-> "x"]}

\* Patch: MergePatch into a new T, ensureFunc, validator, commit, Updated,
\* Schedule
BmPatch(patch) ==
    /\ BmBudget
    /\ IF ~bm.loaded
       THEN bm' = [bm EXCEPT !.ret = [op |-> "Patch", err |-> "config is not loaded"],
                             !.n = @ + 1]
       ELSE IF BmValidator(BmEnsure(BmMergePatch(bm.config, patch))) # ""
       THEN bm' = [bm EXCEPT !.ret = [op |-> "Patch",
                                      err |-> "merged config validation failed"],
                             !.n = @ + 1]
       ELSE bm' = [bm EXCEPT !.ret = [op |-> "Patch", err |-> ""],
                             !.n = @ + 1,
                             !.config = BmEnsure(BmMergePatch(bm.config, patch)),
                             !.events.updated = @ + 1,
                             !.armed = TRUE]
    /\ BmRest

\* the debounce timer fires and its callback runs: saveLocked, then the
\* saved or the error notification
BmSaveCallback(ok) ==
    /\ bm.armed
    /\ bm' = [bm EXCEPT !.ret = [op |-> "SaveCallback",
                                 err |-> IF ok THEN "" ELSE "write failed"],
                        !.armed = FALSE,
                        !.config = BmEnsure(@),
                        !.events.saved = IF ok THEN @ + 1 ELSE @,
                        !.events.error = IF ok THEN @ ELSE @ + 1]
    /\ BmRest

BmDoLoad == \E ok \in BOOLEAN, v \in 0..2, t \in BmThemes : BmLoad(ok, BmConfig(v, t))

BmDoUpdateConfig == \E u \in BmUpdaters : BmUpdateConfig(u)

BmDoSaveCallback == \E ok \in BOOLEAN : BmSaveCallback(ok)

BmDoPatch == \E patch \in BmPatches : BmPatch(patch)

BmNext == BmDoLoad \/ BmGet \/ BmDoUpdateConfig \/ BmDoPatch \/ BmDoSaveCallback

BmSpec == BmInit /\ [][BmNext]_vars

(***************************************************************************)
(* AddRequest and AddFolder on a loaded manager whose config is any tree   *)
(* or non-tree of up to MaxLen items.                                      *)
(***************************************************************************)
FsIds(n) == {AllIds[i] : i \in 1..n}

\* children lists over the config's own ids and an id no item has: the
\* generated UUID never equals an id that is already written somewhere
FsChildren(n) ==
    {<<>>} \cup {<<x>> : x \in FsIds(n) \cup {"zz"}}
           \cup {<<x, y>> : x \in FsIds(n), y \in FsIds(n)}

FsItems(n) == {Request("a", "GET", "/x")} \cup {Folder("a", ch) : ch \in FsChildren(n)}

FsInit ==
    /\ loaded = TRUE
    /\ \E n \in 1..MaxLen :
          \E m \in [FsIds(n) -> FsItems(n)] :
             config = RequestsConfig(CurrentVersion, m, <<>>)
    /\ timer = TimerIdle
    /\ running = <<>>
    /\ events = [updated |-> 0, saved |-> 0, error |-> 0]
    /\ ret = Ret("none", "")
    /\ nops = 0
    /\ got = NoGot
    /\ hist = [commits |-> 0, windows |-> 0, writes |-> 0, savedSeq |-> 0, failSeq |-> 0]
    /\ file = FileAbsent
    /\ rt = RtIdle
    /\ aw = AwIdle
    /\ va = VaIdle
    /\ cc = CcIdle
    /\ bm = BmIdle
    /\ em = EmIdle

FsNext == DoAddRequest \/ DoAddFolder

FsSpec == FsInit /\ [][FsNext]_vars

(***************************************************************************)
(* Validate with its map iterations made explicit: every range loop over a *)
(* map runs in an order of its own, and a loop returns the error of the    *)
(* first item, in that order, that fails.  Validate is run twice on one    *)
(* configuration.                                                          *)
(***************************************************************************)
\* number of items of a configuration validated in explicit orders
VoItems == MaxLen + 1

VoIds == {AllIds[i] : i \in 1..VoItems}

\* items: well-formed requests and folders with at most one child, which
\* may be an id no configuration has; a request without a method; a folder
\* without a name
VoTreeItems ==
    {Request("a", "GET", "/x"), Item(ItemTypeRequest, "a", "", "/x", <<>>), Folder("", <<>>)}
      \cup {Folder("a", ch) : ch \in {<<>>} \cup {<<x>> : x \in VoIds \cup {"zz"}}}

\* the first element of order that is in bad, "" when there is none
FirstAt(order, bad) ==
    LET I == {i \in 1..Len(order) : order[i] \in bad}
    IN IF I = {} THEN "" ELSE order[CHOOSE i \in I : \A j \in I : i <= j]

VoResult(err, at) == [err |-> err, at |-> at]

\* for id, item := range config.Values { validateItemTypeSpecificRules(item) }
typeRulesLoop(values, order) ==
    LET at == FirstAt(order, {k \in DOMAIN values :
                                validateItemTypeSpecificRules(values[k]) # ""})
    IN IF at = "" THEN VoResult("", "")
       ELSE VoResult(validateItemTypeSpecificRules(values[at]), at)

\* the ids the first pass has put into referencedIDs after the first n
\* items of order
ReferencedAfter(allItems, order, n) ==
    UNION {Range(allItems[order[i]].children) : i \in 1..n}

\* one loop that collects the referenced ids and tests each item against the
\* ids collected so far
firstPassWithRootCheck(allItems, order) ==
    LET bad == {order[i] : i \in {j \in 1..Len(order) :
                    \/ order[j] \in Range(allItems[order[j]].children)
                    \/ /\ order[j] \notin ReferencedAfter(allItems, order, j)
                       /\ allItems[order[j]].type # ItemTypeFolder}}
        at == FirstAt(order, bad)
    IN IF at = "" THEN VoResult("", "")
       ELSE IF at \in Range(allItems[at].children)
       THEN VoResult("circular reference detected", at)
       ELSE VoResult("root level item must be a folder", at)

\* first pass of validateReferencesAndRootLevel: collect referencedIDs, an
\* item that lists itself is an error
firstPass(allItems, order) ==
    LET at == FirstAt(order, {k \in DOMAIN allItems : k \in Range(allItems[k].children)})
    IN IF at = "" THEN VoResult("", "") ELSE VoResult("circular reference detected", at)

\* second pass: an item that is not in referencedIDs must be a folder
secondPass(allItems, referenced, order) ==
    LET at == FirstAt(order, {k \in DOMAIN allItems :
                                k \notin referenced /\ allItems[k].type # ItemTypeFolder})
    IN IF at = "" THEN VoResult("", "") ELSE VoResult("root level item must be a folder", at)

\* third pass, over referencedIDs: every referenced id exists
thirdPass(allItems, referenced, order) ==
    LET at == FirstAt(order, {c \in referenced : c \notin DOMAIN allItems})
    IN IF at = "" THEN VoResult("", "") ELSE VoResult("child reference does not exist", at)

\* the loop of validateMaxNestingDepth over the root folders; visited is
\* empty again whenever validateFolderDepth has returned
depthLoop(allItems, order) ==
    LET at == FirstAt(order, {k \in WkRoots(allItems) :
                                validateFolderDepth(k, allItems, 0, {}) # ""})
    IN IF at = "" THEN VoResult("", "")
       ELSE VoResult(validateFolderDepth(at, allItems, 0, {}), at)

VoInit ==
    /\ MgrInit
    /\ file = FileAbsent
    /\ rt = RtIdle
    /\ aw = AwIdle
    /\ cc = CcIdle
    /\ bm = BmIdle
    /\ em = EmIdle
    /\ \E n \in 1..VoItems :
          \E m \in [{AllIds[i] : i \in 1..n} -> VoTreeItems] :
             va = [VaIdle EXCEPT !.pc = "struct", !.run = 1,
                                 !.c = RequestsConfig(CurrentVersion, m, <<>>)]

VoRest == UNCHANGED <<mgrVars, rt, aw, cc, bm, em>>

\* Validate returns r: the first run's result is kept and the second run
\* starts, the second run's result ends the comparison
VoReturn(r) ==
    va' = IF va.run = 1
          THEN [va EXCEPT !.pc = "struct", !.run = 2, !.first = r]
          ELSE [va EXCEPT !.pc = "done", !.err = r.err, !.at = r.at]

\* a loop has ended with r: return its error, or go on with the next loop
VoStep(r, next) == IF r.err # "" THEN VoReturn(r) ELSE va' = [va EXCEPT !.pc = next]

\* validate.Struct(config)
VoStruct ==
    /\ va.pc = "struct"
    /\ VoStep(VoResult(IF StructOK(va.c) THEN "" ELSE "validation failed", ""), "types")
    /\ VoRest

VoTypeRules(order) ==
    /\ va.pc = "types"
    /\ VoStep(typeRulesLoop(va.c.values, order), "first")
    /\ VoRest

VoFirstPass(order) ==
    /\ va.pc = "first"
    /\ VoStep(firstPass(va.c.values, order), "second")
    /\ VoRest

VoSecondPass(order) ==
    /\ va.pc = "second"
    /\ VoStep(secondPass(va.c.values, ReferencedIDs(va.c.values), order), "third")
    /\ VoRest

VoThirdPass(order) ==
    /\ va.pc = "third"
    /\ VoStep(thirdPass(va.c.values, ReferencedIDs(va.c.values), order), "depth")
    /\ VoRest

\* the last loop: its result is Validate's
VoDepth(order) ==
    /\ va.pc = "depth"
    /\ VoReturn(depthLoop(va.c.values, order))
    /\ VoRest

VoDoTypeRules == \E order \in Perms(DOMAIN va.c.values) : VoTypeRules(order)

VoDoFirstPass == \E order \in Perms(DOMAIN va.c.values) : VoFirstPass(order)

VoDoSecondPass == \E order \in Perms(DOMAIN va.c.values) : VoSecondPass(order)

VoDoThirdPass == \E order \in Perms(ReferencedIDs(va.c.values)) : VoThirdPass(order)

VoDoDepth == \E order \in Perms(DOMAIN va.c.values) : VoDepth(order)

VoNext ==
    \/ VoStruct
    \/ VoDoTypeRules
    \/ VoDoFirstPass
    \/ VoDoSecondPass
    \/ VoDoThirdPass
    \/ VoDoDepth

VoSpec == VoInit /\ [][VoNext]_vars

(***************************************************************************)
(* The requests Manager that embeds base.BaseManager (manager.go, second   *)
(* listing; base manager in part_004): one caller, the debounce timer's    *)
(* goroutine, and the manager's RWMutex, one lock operation per step.      *)
(***************************************************************************)
EmTree ==
    [k \in {"i1", "i2"} |->
        IF k = "i1" THEN Folder("a", <<"i2">>) ELSE Request("a", "GET", "/x")]

\* what the package-level Load can return
EmConfigs ==
    {RequestsConfig(CurrentVersion, EmTree, <<"i1">>),
     RequestsConfig(CurrentVersion, OneMap("i1", Folder("a", <<>>)), <<"i1">>)}

\* the "values" of a patch: a rename of the root folder, and a map that
\* fails validation
EmPatches ==
    {OneMap("i1", Folder("b", <<>>)), OneMap("i1", Request("a", "GET", "/x"))}

EmParents == {"i1", "i2", "zz"}

EmAdds == {"AddRequest", "AddFolder"}

\* uuid.New().String(): an id the config does not have
EmNewId(values) == IF "n1" \in DOMAIN values THEN "n2" ELSE "n1"

EmNewItem(op) == IF op = "AddRequest" THEN Request("a", "GET", "/x") ELSE Folder("a", <<>>)

\* base.PatchConfig and UnmarshalPatchedConfig on a patch with the key
\* "values": the key's value replaces the config's, and the version is set
\* back to the committed one
EmPatchConfig(c, values) == [c EXCEPT !.values = values]

EmRet(op, err, id) == [op |-> op, err |-> err, id |-> id]

EmInit ==
    /\ MgrInit
    /\ file = FileAbsent
    /\ rt = RtIdle
    /\ aw = AwIdle
    /\ va = VaIdle
    /\ cc = CcIdle
    /\ bm = BmIdle
    /\ em = [EmIdle EXCEPT !.pc = "idle"]

EmRest == UNCHANGED <<mgrVars, rt, aw, va, cc, bm>>

EmBudget == em.n < MaxOps

\* sync.RWMutex.Lock can return: no writer (readers hold the lock only
\* within one step)
EmCanLock == em.mu = ""

\* sync.RWMutex.RLock can return: no writer, the caller itself included
EmCanRLock == em.mu = ""

\* BaseManager.SetContext: Lock, m.ctx = ctx, Unlock
EmSetContext ==
    /\ em.pc = "idle"
    /\ ~em.ctx
    /\ EmCanLock
    /\ em' = [em EXCEPT !.ctx = TRUE]
    /\ EmRest

\* Manager.Load: Lock, config, err := Load(), m.config = config, Unlock.
\* The Load at start-up is repeated until it succeeds and is not counted
EmLoad(c, ok) ==
    /\ em.pc = "idle"
    /\ ~em.loaded \/ EmBudget
    /\ EmCanLock
    /\ LET n == IF em.loaded THEN em.n + 1 ELSE em.n
       IN em' = IF ok
                THEN [em EXCEPT !.loaded = TRUE, !.config = c,
                                !.ret = EmRet("Load", "", ""), !.n = n]
                ELSE [em EXCEPT !.ret = EmRet("Load", "load failed", ""), !.n = n]
    /\ EmRest

\* the caller enters Patch, AddRequest or AddFolder: Patch starts with
\* ctx := m.GetContext(), the other two with mu.Lock()
EmCall(op, parentId, values) ==
    /\ em.pc = "idle"
    /\ EmBudget
    /\ em' = [em EXCEPT !.pc = IF op = "Patch" THEN "getctx" ELSE "lock",
                        !.op = op, !.parent = parentId, !.patch = values,
                        !.lctx = FALSE, !.n = @ + 1]
    /\ EmRest

\* BaseManager.GetContext on the caller's goroutine: RLock, read m.ctx,
\* RUnlock.  Patch calls it before locking, EmitUpdatedWithName calls it
\* from AddRequest and AddFolder
EmGetContext ==
    /\ em.pc = "getctx"
    /\ EmCanRLock
    /\ em' = [em EXCEPT !.lctx = em.ctx,
                        !.pc = IF em.op = "Patch" THEN "lock" ELSE "emit"]
    /\ EmRest

\* mu.Lock(); defer mu.Unlock()
EmLock ==
    /\ em.pc = "lock"
    /\ EmCanLock
    /\ em' = [em EXCEPT !.mu = "caller", !.pc = "body"]
    /\ EmRest

\* return err, with the deferred Unlock
EmFail(msg) ==
    em' = [em EXCEPT !.pc = "idle", !.mu = "", !.ret = EmRet(em.op, msg, "")]

\* the statements between Lock and the updated event
EmBody ==
    /\ em.pc = "body"
    /\ IF ~em.loaded
       THEN EmFail("config is not loaded")
       ELSE IF em.op = "Patch"
       THEN LET merged == EmPatchConfig(em.config, em.patch)
            IN IF ~Valid(merged)
               THEN EmFail("merged config validation failed")
               ELSE em' = [em EXCEPT !.config = merged, !.pc = "emit"]
       ELSE IF ~CcParentFound(em.config.values, em.parent)
       THEN EmFail("parent folder not found")
       ELSE LET newId == EmNewId(em.config.values)
            IN em' = [em EXCEPT
                        !.config.values = AddChild(@, em.parent, newId, EmNewItem(em.op)),
                        !.newId = newId,
                        !.pc = "getctx"]
    /\ EmRest

\* runtime.EventsEmit(ctx, "requests:updated", ...) when ctx is not nil
EmEmit ==
    /\ em.pc = "emit"
    /\ em' = [em EXCEPT !.events.updated = IF em.lctx THEN @ + 1 ELSE @, !.pc = "sched"]
    /\ EmRest

\* m.ScheduleSave(...); return newId, nil (return nil for Patch), Unlock
EmScheduleSave ==
    /\ em.pc = "sched"
    /\ em' = [em EXCEPT !.armed = TRUE, !.pc = "idle", !.mu = "",
                        !.ret = EmRet(em.op, "", IF em.op = "Patch" THEN "" ELSE em.newId)]
    /\ EmRest

\* the debounced callback: saveFunc() is m.save(), which takes no lock
EmFire(ok) ==
    /\ em.armed
    /\ em.tpc = "idle"
    /\ em' = [em EXCEPT !.armed = FALSE,
                        !.disk = IF ok /\ em.loaded THEN FileJSON(MarshalConfig(em.config)) ELSE @,
                        !.tpc = IF ok /\ em.loaded THEN "saved" ELSE "error"]
    /\ EmRest

\* EmitSavedWithName or EmitErrorWithName of the callback: GetContext, then
\* the event when ctx is not nil
EmFireEmit ==
    /\ em.tpc # "idle"
    /\ EmCanRLock
    /\ em' = [em EXCEPT !.tpc = "idle",
                        !.events[em.tpc] = IF em.ctx THEN @ + 1 ELSE @]
    /\ EmRest

EmDoLoad == \E c \in EmConfigs, ok \in BOOLEAN : EmLoad(c, ok)

EmDoCall ==
    \/ \E values \in EmPatches : EmCall("Patch", "", values)
    \/ \E op \in EmAdds, parentId \in EmParents : EmCall(op, parentId, EmptyMap)

EmDoFire == \E ok \in BOOLEAN : EmFire(ok)

EmNext ==
    \/ EmSetContext
    \/ EmDoLoad
    \/ EmDoCall
    \/ EmGetContext
    \/ EmLock
    \/ EmBody
    \/ EmEmit
    \/ EmScheduleSave
    \/ EmDoFire
    \/ EmFireEmit

EmSpec == EmInit /\ [][EmNext]_vars

\* the caller's goroutine and the timer's both run
FairEmSpec == EmSpec /\ WF_vars(EmNext)

(***************************************************************************)
(* Properties.                                                             *)
(***************************************************************************)

\* C1: a PatchValues call that Validate rejects leaves the committed config
\* as it was: Get returns after the call what it returned before it.
C1_RejectedPatchLeavesConfig ==
    [][(ret'.op = "PatchValues" /\ ret'.err = "merged config validation failed")
         => GetOf(loaded', config') = GetOf(loaded, config)]_vars

\* C2: a successful Load, PatchValues, AddRequest or AddFolder on a manager
\* whose committed config is valid leaves a committed config that passes
\* Validate.
C2_CommittedConfigValid ==
    [][(/\ ret'.op \in {"Load", "PatchValues", "AddRequest", "AddFolder"}
        /\ ret'.err = ""
        /\ loaded => Valid(config))
         => Valid(config')]_vars

\* C3: AddRequest and AddFolder with a parentId that is no key of values, or
\* the key of a request, fail with not-found, return no id, leave the config
\* unchanged, emit no notification and schedule no save.
C3_AddUnderBadParentRefused ==
    [][(/\ ret'.op \in {"AddRequest", "AddFolder"}
        /\ loaded
        /\ \/ ret'.parent \notin DOMAIN config.values
           \/ config.values[ret'.parent].type = ItemTypeRequest)
         => /\ ret'.err = "parent folder not found"
            /\ ret'.id = ""
            /\ config' = config
            /\ events' = events
            /\ timer' = timer
            /\ running' = running]_vars

\* an AddRequest under a parent that is a request was refused
C3_Witness ==
    /\ ret.op = "AddRequest"
    /\ ret.err = "parent folder not found"
    /\ loaded
    /\ ret.parent \in DOMAIN config.values
    /\ config.values[ret.parent].type = ItemTypeRequest
    /\ events.updated = 0
    /\ ~timer.armed

\* C4: a successful AddRequest (AddFolder) returns an id that was no key of
\* values; afterwards values is the old map plus that id mapped to a request
\* with the given name, method and path (an empty folder with the given
\* name), the parent's children are its old children followed by the new id,
\* its type and name are unchanged, every other item and the version are
\* unchanged.
C4_AddAppendsChild ==
    [][(ret'.op \in {"AddRequest", "AddFolder"} /\ ret'.err = "")
         => LET id == ret'.id
                p == ret'.parent
                newItem == IF ret'.op = "AddRequest"
                           THEN Request(ret'.name, ret'.method, ret'.path)
                           ELSE Folder(ret'.name, <<>>)
            IN /\ id \notin DOMAIN config.values
               /\ DOMAIN config'.values = DOMAIN config.values \cup {id}
               /\ config'.values[id] = newItem
               /\ config'.values[p].children = Append(config.values[p].children, id)
               /\ config'.values[p].type = config.values[p].type
               /\ config'.values[p].name = config.values[p].name
               /\ \A k \in DOMAIN config.values \ {p} :
                     config'.values[k] = config.values[k]
               /\ config'.version = config.version]_vars

\* an AddFolder put a second child behind the first one of its parent
C4_Witness ==
    /\ ret.op = "AddFolder"
    /\ ret.err = ""
    /\ Len(config.values[ret.parent].children) = 2
    /\ config.values[ret.parent].children[2] = ret.id
    /\ config.values[ret.id] = Folder(ret.name, <<>>)

\* C5: at every step of an atomic write, also after a failed step or a
\* crash, the destination holds the complete previous content (or is absent
\* as before) or the complete new content.
C5_DestinationOldOrNew ==
    aw.pc # "off"
      => \/ aw.destExists = aw.oldExists /\ aw.dest = aw.old
         \/ aw.destExists /\ aw.dest = aw.data

\* the process crashed with part of the data in the temporary file
C5_Witness ==
    /\ aw.pc = "crashed"
    /\ aw.tmpExists
    /\ Len(aw.tmp) > 0
    /\ Len(aw.tmp) < Len(aw.data)
    /\ aw.oldExists
    /\ aw.dest = aw.old
    /\ aw.old # aw.data

\* C6: when the commits so far all scheduled the save within one debounce
\* window, no write failed and the callback has just run with nothing
\* pending, then exactly one disk write was made, for the whole burst, the
\* file holds the committed config (the final name) and exactly one saved
\* notification was emitted.
C6_BurstSavedOnce ==
    (/\ ret.op = "SaveCallback"
     /\ hist.commits >= 2
     /\ hist.windows = 1
     /\ hist.failSeq = 0
     /\ ~timer.armed
     /\ running = <<>>)
      => /\ hist.writes = 1
         /\ ret.burst = hist.commits
         /\ events.saved = 1
         /\ events.error = 0
         /\ file = FileJSON(MarshalConfig(config))

\* three renames of item i1 in one window were saved by one write
C6_Witness ==
    /\ ret.op = "SaveCallback"
    /\ ret.err = ""
    /\ ret.burst = 3
    /\ hist.commits = 3
    /\ hist.windows = 1
    /\ nops = 3
    /\ DOMAIN config.values = {"i1", "i2"}
    /\ config.values["i1"].name \in {"b", "c"}
    /\ hist.writes = 1
    /\ events.saved = 1
    /\ file.doc.values["i1"].name = config.values["i1"].name

\* C7: a save callback that succeeds writes the config committed when it
\* runs, whatever was committed when it was scheduled.
C7_SaveWritesCurrent ==
    [][(ret'.op = "SaveCallback" /\ ret'.err = "")
         => file' = FileJSON(MarshalConfig(config))]_vars

\* a callback ran after a commit that came later than its scheduling
C7_Witness ==
    /\ ret.op = "SaveCallback"
    /\ ret.err = ""
    /\ ret.stale
    /\ file = FileJSON(MarshalConfig(config))

\* C8: every commit is eventually followed by a run of the save callback;
\* and if no further operation is invoked after a commit, then eventually
\* either a write has failed or the file holds the committed config and a
\* saved notification has been emitted after that commit.
C8_CommitEventuallySaved ==
    /\ \A n \in 1..MaxBurst :
          (hist.commits = n) ~> (hist.savedSeq >= n \/ hist.failSeq >= n)
    /\ \A k \in 1..MaxBurst :
          (/\ nops = k
           /\ ret.op \in {"PatchValues", "AddRequest", "AddFolder"}
           /\ ret.err = "")
            ~> (\/ nops > k
                \/ hist.failSeq = hist.commits
                \/ /\ hist.savedSeq = hist.commits
                   /\ events.saved >= 1
                   /\ file = FileJSON(MarshalConfig(config)))

\* the second of two commits has been saved and nothing else was invoked
C8_Witness ==
    /\ ret.op = "SaveCallback"
    /\ nops = 2
    /\ hist.commits = 2
    /\ hist.savedSeq = 2
    /\ hist.failSeq = 0
    /\ events.saved >= 1
    /\ file = FileJSON(MarshalConfig(config))

\* C9 as stated: for every valid configuration, Save then Load returns a
\* config equal to it.
C9_RoundTripAnyValid ==
    (rt.pc = "loaded" /\ Valid(rt.c))
      => (rt.res.err = "" /\ rt.res.cfg = rt.c)

\* every string of the config is valid UTF-8
UTF8OK(c) ==
    /\ \A k \in DOMAIN c.values :
          /\ k # BadUtf8
          /\ \A f \in {"type", "name", "method", "path"} : c.values[k][f] # BadUtf8
          /\ BadUtf8 \notin Range(c.values[k].children)
    /\ BadUtf8 \notin Range(c.rootOrder)

\* C9 amended: for every valid configuration whose version is not below
\* CurrentVersion and whose strings are valid UTF-8, Save then Load returns a
\* config with the same version, values and rootOrder.
C9_RoundTripCurrentVersion ==
    (rt.pc = "loaded" /\ Valid(rt.c) /\ rt.c.version >= CurrentVersion /\ UTF8OK(rt.c))
      => (rt.res.err = "" /\ rt.res.cfg = rt.c)

\* a valid three-item config with an ordered children list and a rootOrder
\* came back from the file
C9_Witness ==
    /\ rt.pc = "loaded"
    /\ Valid(rt.c)
    /\ rt.c.version = CurrentVersion
    /\ UTF8OK(rt.c)
    /\ DOMAIN rt.c.values = {"i1", "i2", "i3"}
    /\ rt.c.values["i1"].children = <<"i3", "i2">>
    /\ rt.c.rootOrder = <<"i1">>
    /\ rt.res.err = ""
    /\ rt.res.cfg = rt.c

\* C10: whatever a caller does to a config it got from Get, a later Get
\* returns what it would have returned without that.
C10_GetNeverAliases ==
    [][ret'.op \in {"GotSetEntry", "GotSetChild"}
         => GetOf(loaded', config') = GetOf(loaded, config)]_vars

\* some item lists its own id among its children
SelfReferencing(c) ==
    \E k \in DOMAIN c.values : k \in Range(c.values[k].children)

\* the struct tags and the type-specific rules accept every item of c
ItemsWellFormed(c) ==
    /\ StructOK(c)
    /\ \A k \in DOMAIN c.values : validateItemTypeSpecificRules(c.values[k]) = ""

RootItems(vals) == {k \in DOMAIN vals : k \notin ReferencedIDs(vals)}

RECURSIVE FoldersAtDepth(_, _)
\* the folders found d folder levels below a root folder (depth 0)
FoldersAtDepth(vals, d) ==
    IF d = 0
    THEN {k \in RootItems(vals) : vals[k].type = ItemTypeFolder}
    ELSE {k \in DOMAIN vals :
            /\ vals[k].type = ItemTypeFolder
            /\ \E q \in FoldersAtDepth(vals, d - 1) : k \in Range(vals[q].children)}

\* a chain of folders from a root folder is longer than MaxFolderDepth
TooDeep(c) == FoldersAtDepth(c.values, MaxFolderDepth) # {}

DepthErrors ==
    {"folder exceeds maximum nesting depth", "folder cannot contain nested folders"}

\* C12 as stated: every configuration in which a folder sits at depth >=
\* MaxFolderDepth fails with a max-depth error, and the chain of exactly
\* three folders ending in a request is accepted.
C12_DeepChainDepthError ==
    va.pc = "done"
      => /\ TooDeep(va.c) => va.err \in DepthErrors
         /\ (ItemsWellFormed(va.c) /\ validateReferencesAndRootLevel(va.c.values) = ""
               /\ ~TooDeep(va.c)) => va.err = ""

\* C12 amended: among the configurations that pass the struct tags, the
\* type-specific rules and the reference and root-level checks, those in
\* which a folder sits at depth >= MaxFolderDepth below a root folder fail
\* with a max-depth error, and the others (the chain of exactly three folders
\* ending in a request among them) are accepted.
C12_DepthLimit ==
    (/\ va.pc = "done"
     /\ ItemsWellFormed(va.c)
     /\ validateReferencesAndRootLevel(va.c.values) = "")
      => /\ TooDeep(va.c) => va.err \in DepthErrors
         /\ ~TooDeep(va.c) => va.err = ""

\* a chain of four folders was refused with a max-depth error
C12_Witness ==
    /\ va.pc = "done"
    /\ DOMAIN va.c.values = {"i1", "i2", "i3", "i4"}
    /\ va.c.values["i1"] = Folder("a", <<"i2">>)
    /\ va.c.values["i2"] = Folder("a", <<"i3">>)
    /\ va.c.values["i3"] = Folder("a", <<"i4">>)
    /\ va.c.values["i4"] = Folder("a", <<>>)
    /\ va.err \in DepthErrors

\* C13: Validate refuses every configuration with a request whose method or
\* path is empty, with a request that has children, or with a folder whose
\* method or path is not empty.
C13_TypeSpecificRules ==
    (/\ va.pc = "done"
     /\ \E k \in DOMAIN va.c.values :
           LET it == va.c.values[k] IN
           \/ it.type = ItemTypeRequest /\ (it.method = "" \/ it.path = "")
           \/ it.type = ItemTypeRequest /\ Len(it.children) > 0
           \/ it.type = ItemTypeFolder /\ (it.method # "" \/ it.path # ""))
      => va.err # ""

RECURSIVE ChildClosure(_, _)
\* the ids in S and everything listed below them
ChildClosure(vals, S) ==
    LET T == S \cup UNION {Range(vals[k].children) : k \in S \cap DOMAIN vals}
    IN IF T = S THEN S ELSE ChildClosure(vals, T)

Descendants(vals, k) == ChildClosure(vals, Range(vals[k].children))

\* two different items are each below the other
HasLongCycle(c) ==
    \E k \in DOMAIN c.values :
       \E j \in DOMAIN c.values \ {k} :
          j \in Descendants(c.values, k) /\ k \in Descendants(c.values, j)

\* C14: Validate refuses every configuration whose children references
\* contain a cycle of length two or more.
C14_LongCycleRejected ==
    (va.pc = "done" /\ HasLongCycle(va.c)) => va.err # ""

C16_ChildrenExist ==
    (va.pc = "done" /\ va.err = "")
      => \A k \in DOMAIN va.c.values :
            \A i \in 1..Len(va.c.values[k].children) :
               va.c.values[k].children[i] \in DOMAIN va.c.values

\* a folder listing an existing child and a missing one was refused
C16_Witness ==
    /\ va.pc = "done"
    /\ DOMAIN va.c.values = {"i1", "i2"}
    /\ va.c.values["i1"] = Folder("a", <<"i2", "zz">>)
    /\ va.c.values["i2"] = Request("a", "GET", "/x")
    /\ va.err = "child reference does not exist"

\* C17: PatchValues, AddRequest, AddFolder and Save called before any
\* successful Load fail with the not-loaded error, leave the manager
\* unloaded, emit no notification, write nothing to disk and schedule no
\* save.
C17_NotLoadedRefused ==
    [][(ret'.op \in {"PatchValues", "AddRequest", "AddFolder", "Save"} /\ ~loaded)
         => /\ ret'.err = "config is not loaded"
            /\ ret'.id = ""
            /\ ~loaded'
            /\ config' = config
            /\ events' = events
            /\ file' = file
            /\ timer' = timer
            /\ running' = running]_vars

\* two calls, the second one Save, were refused before any Load
C17_Witness ==
    /\ ~loaded
    /\ nops = 2
    /\ ret.op = "Save"
    /\ ret.err = "config is not loaded"
    /\ file \in InitFiles \ {FileAbsent}
    /\ events = [updated |-> 0, saved |-> 0, error |-> 0]
    /\ ~timer.armed

\* the document of an empty config at CurrentVersion
EmptyCurrentDoc(f) ==
    /\ f.kind = "json"
    /\ f.doc.version = CurrentVersion
    /\ DOMAIN f.doc.values = {}

\* C18: when the requests file is absent, a Load that succeeds commits an
\* empty config at CurrentVersion and has written it to disk; a Load that
\* follows reads that file and commits the same empty config.
C18_BootstrapOnAbsentFile ==
    [][/\ (ret'.op = "Load" /\ file.kind = "absent")
            => /\ ret'.err \in {"", "failed to create requests file"}
               /\ ret'.err = ""
                    => /\ loaded'
                       /\ config'.version = CurrentVersion
                       /\ DOMAIN config'.values = {}
                       /\ config'.rootOrder = <<>>
                       /\ EmptyCurrentDoc(file')
       /\ (/\ ret.op = "Load" /\ ret.err = "" /\ nops = 0
           /\ EmptyCurrentDoc(file)
           /\ ret'.op = "Load")
            => /\ ret'.err \in {"", "failed to read requests file"}
               /\ file' = file
               /\ loaded'
               /\ config' = config
               /\ config'.version = CurrentVersion
               /\ DOMAIN config'.values = {}]_vars

\* a second Load succeeded on the file the first one created
C18_Witness ==
    /\ ret.op = "Load"
    /\ ret.err = ""
    /\ nops = 1
    /\ loaded
    /\ config.version = CurrentVersion
    /\ DOMAIN config.values = {}
    /\ EmptyCurrentDoc(file)

C20_UnknownVersionRefused ==
    [][(/\ ret'.op = "Load"
        /\ file.kind = "json"
        /\ file.doc.version \notin 0..CurrentVersion)
         => /\ ret'.err \in {"failed to migrate requests config",
                             "failed to read requests file"}
            /\ loaded' = loaded
            /\ config' = config]_vars

\* C21: a PatchValues, AddRequest or AddFolder call that is rejected
\* (validation failure, not-found, not-loaded) emits no notification of any
\* kind and schedules no save: the pending timer and the callbacks already
\* started are as they were.
C21_RejectionEmitsNothing ==
    [][(ret'.op \in {"PatchValues", "AddRequest", "AddFolder"} /\ ret'.err # "")
         => /\ events' = events
            /\ timer' = timer
            /\ running' = running]_vars

\* a patch was rejected while the save of an earlier commit was pending
C21_Witness ==
    /\ loaded
    /\ ret.op = "PatchValues"
    /\ ret.err = "merged config validation failed"
    /\ hist.commits = 1
    /\ events = [updated |-> 1, saved |-> 0, error |-> 0]
    /\ timer.armed
    /\ timer.seq = 1

\* C22: when the write of a debounced save fails, one requests:error
\* notification is emitted for that fire and no requests:saved, the
\* committed config and the file are left as they were and nothing is
\* re-armed; with no timer armed and no callback started no save runs until
\* a commit arms the timer again, and the save that then succeeds writes the
\* config committed at that time.
C22_FailedSaveReportedNotRetried ==
    [][/\ (ret'.op = "SaveCallback" /\ ret'.err # "")
            => /\ events' = [events EXCEPT !.error = @ + 1]
               /\ config' = config
               /\ file' = file
               /\ timer' = timer
               /\ Len(running') = Len(running) - 1
       /\ (~timer.armed /\ running = <<>>)
            => /\ ret'.op \notin {"TimerFire", "SaveCallback"}
               /\ file' = file
       /\ hist'.commits # hist.commits => timer'.armed
       /\ (ret'.op = "SaveCallback" /\ ret'.err = "" /\ hist.failSeq > 0)
            => /\ file' = FileJSON(MarshalConfig(config'))
               /\ events'.saved = events.saved + 1]_vars

\* a save failed, a later commit was saved
C22_Witness ==
    /\ ret.op = "SaveCallback"
    /\ ret.err = ""
    /\ hist.failSeq = 1
    /\ hist.commits = 2
    /\ hist.savedSeq = 2
    /\ hist.writes = 2
    /\ events.error = 1
    /\ events.saved = 1
    /\ file = FileJSON(MarshalConfig(config))

\* C23: a successful PatchValues(p) is a key-wise upsert: afterwards the
\* committed map has p's item for every id of p and the previous item for
\* every other id, its key set is the old key set united with the keys of p,
\* and the version is the version before the call.
C23_PatchIsUpsert ==
    [][(ret'.op = "PatchValues" /\ ret'.err = "")
         => /\ DOMAIN config'.values = DOMAIN config.values \cup DOMAIN ret'.patch
            /\ \A k \in DOMAIN ret'.patch : config'.values[k] = ret'.patch[k]
            /\ \A k \in DOMAIN config.values \ DOMAIN ret'.patch :
                  config'.values[k] = config.values[k]
            /\ config'.version = config.version]_vars

\* a patch that replaced one item of a map holding another one was committed
C23_Witness ==
    /\ ret.op = "PatchValues"
    /\ ret.err = ""
    /\ DOMAIN ret.patch = {"i1"}
    /\ "i2" \in DOMAIN config.values
    /\ config.values["i1"].name = "b"
    /\ config.values["i2"] = Request("a", "GET", "/x")

\* a patch that added an item under a new id was committed
C23_WitnessNewKey ==
    /\ ret.op = "PatchValues"
    /\ ret.err = ""
    /\ DOMAIN ret.patch = {"i4"}
    /\ DOMAIN config.values = {"i1", "i2", "i4"}

\* C24: when Load fails (read, decode, migration or validation) the
\* committed config is exactly what it was before the call: a loaded manager
\* keeps its config, an unloaded manager stays unloaded, and a mutation
\* called on the unloaded manager fails with not-loaded.
C24_FailedLoadKeepsConfig ==
    [][/\ (ret'.op = "Load" /\ ret'.err # "")
            => /\ config' = config
               /\ loaded' = loaded
       /\ (~loaded /\ ret'.op = "PatchValues")
            => /\ ret'.err = "config is not loaded"
               /\ ~loaded'
               /\ config' = config]_vars

\* a Load failed on a manager that had loaded a non-empty config
C24_Witness ==
    /\ ret.op = "Load"
    /\ ret.err = "failed to read requests file"
    /\ loaded
    /\ config.values # EmptyMap
    /\ nops = 1

\* a patch was refused after a Load that failed to migrate
C24_WitnessUnloaded ==
    /\ ret.op = "PatchValues"
    /\ ret.err = "config is not loaded"
    /\ ~loaded
    /\ file.kind = "json"
    /\ UnmarshalConfig(file.doc).version = -1

\* what one mutation of the concurrent callers does when it runs alone
SerialApply(v, t, pa) ==
    IF t \in CcAdders
    THEN IF CcParentFound(v, pa[t])
         THEN AddChild(v, pa[t], CcNewId(t), CcNewItem(t))
         ELSE v
    ELSE MergeValues(v, CcPatch)

RECURSIVE SerialFrom(_, _, _)
\* the maps that some of the mutations of rest, run one after the other in
\* some order, lead to from v
SerialFrom(v, rest, pa) ==
    {v} \cup UNION {SerialFrom(SerialApply(v, t, pa), rest \ {t}, pa) : t \in rest}

SerialStates == SerialFrom(UnmarshalConfig(DocTree).values, CcMutators, cc.parentOf)

\* the effect of the mutation u is in the map v
EffectIn(u, v) ==
    IF u \in CcPatchers
    THEN v["i2"] = CcPatch["i2"]
    ELSE cc.rets[u] = ""
           => /\ CcNewId(u) \in DOMAIN v
              /\ v[CcNewId(u)] = CcNewItem(u)
              /\ CcNewId(u) \in Range(v[cc.parentOf[u]].children)

\* C25: under any interleaving of the callers and the timer callbacks, what
\* a Get returns and what a callback writes is the map as it stood between
\* two mutations, never a map in the middle of one, with the effect of every
\* mutation that returned before the Get started; and when the adders have
\* returned, the item of each one that found its parent is in the map and
\* in the children of its parent.
C25_Serialized ==
    /\ \A g \in CcGetters :
          (cc # CcIdle /\ cc.pc[g] = "done")
             => /\ cc.res[g] \in SerialStates
                /\ \A u \in cc.before : EffectIn(u, cc.res[g])
    /\ \A i \in 1..Len(cc.disk) : cc.disk[i].values \in SerialStates
    /\ (cc # CcIdle /\ \A a \in CcAdders : cc.pc[a] = "done")
          => \A a \in CcAdders :
                /\ cc.rets[a] = "" <=> cc.parentOf[a] = "i1"
                /\ EffectIn(a, cc.values)

\* both adders added under i1; the Get that ran between them returned the
\* first one's item and not the second one's
C25_Witness ==
    /\ cc # CcIdle
    /\ \A a \in CcAdders : cc.pc[a] = "done" /\ cc.parentOf[a] = "i1"
    /\ cc.pc["g1"] = "done"
    /\ DOMAIN cc.res["g1"] = {"i1", "i2", "n2"}
    /\ cc.values["i1"].children = <<"i2", "n2", "n1">>
    /\ cc.before = {"a2"}

\* C26: every write of the requests document made during Load, the
\* first-run bootstrap write and the write that follows a migration, leaves
\* the file either as it was (or absent) or holding a complete document.
C26_LoadWritesAtomically ==
    [][ret'.op = "Load" => (file' = file \/ file'.kind = "json")]_vars

\* C27: a DeleteItem(id) that succeeds on a folder removes the folder and
\* everything below it from values and removes the removed ids from the
\* children of every remaining item and from rootOrder, in the same order
\* otherwise; no children list and no rootOrder entry of the result names
\* an absent item, and the remaining items keep their other fields.
C27_DeleteRemovesSubtree ==
    [][(/\ ret'.op = "DeleteItem"
        /\ ret'.err = ""
        /\ config.values[ret'.id].type = ItemTypeFolder)
         => LET dead == {ret'.id} \cup Descendants(config.values, ret'.id)
                keeps(s, t) ==
                    /\ Range(t) = Range(s) \ dead
                    /\ \A i, j \in 1..Len(t) :
                          i < j => \E p, q \in 1..Len(s) :
                                      p < q /\ s[p] = t[i] /\ s[q] = t[j]
            IN /\ DOMAIN config'.values = DOMAIN config.values \ dead
               /\ \A k \in DOMAIN config'.values :
                     /\ [config'.values[k] EXCEPT !.children = <<>>]
                          = [config.values[k] EXCEPT !.children = <<>>]
                     /\ keeps(config.values[k].children, config'.values[k].children)
               /\ keeps(config.rootOrder, config'.rootOrder)
               /\ ReferencedIDs(config'.values) \subseteq DOMAIN config'.values
               /\ Range(config'.rootOrder) \subseteq DOMAIN config'.values
               /\ config'.version = config.version]_vars

\* the folder i2 was deleted with its child i3 from under the root i1, which
\* keeps its other child
C27_Witness ==
    /\ ret.op = "DeleteItem"
    /\ ret.err = ""
    /\ ret.id = "i2"
    /\ DOMAIN config.values = {"i1", "i4"}
    /\ config.values["i1"].children = <<"i4">>
    /\ file.kind = "json"
    /\ DOMAIN file.doc.values = {"i1", "i2", "i3", "i4"}
    /\ UnmarshalConfig(file.doc).values["i2"].children = <<"i3">>
    /\ UnmarshalConfig(file.doc).values["i1"].children = <<"i2", "i4">>
    /\ events.updated = 1
    /\ timer.armed

\* the place of the effect e in the log of the concurrent callers
LogPos(e) == CHOOSE i \in 1..Len(cc.log) : cc.log[i] = e

\* e2 has not happened, or e1 happened before it
Precedes(e1, e2) ==
    e2 \in Range(cc.log) => (e1 \in Range(cc.log) /\ LogPos(e1) < LogPos(e2))

\* the map v holds what the mutation t commits
Holds(v, t) ==
    IF t \in CcPatchers
    THEN v["i2"] = CcPatch["i2"]
    ELSE CcNewId(t) \in DOMAIN v

\* C28: for every committed mutation the effects come in the order commit,
\* requests:updated (carrying the committed map), schedule of the debounced
\* save, return; a disk write that holds the mutation, and the
\* requests:saved that follows it, come after its commit and its updated
\* notification; and the return comes before that write, not after it.
C28_EffectOrder ==
    cc # CcIdle =>
       /\ \A t \in CcMutators :
             /\ Precedes(<<"commit", t>>, <<"updated", t>>)
             /\ Precedes(<<"updated", t>>, <<"schedule", t>>)
             /\ Precedes(<<"schedule", t>>, <<"return", t>>) \/ cc.rets[t] # ""
             /\ <<"commit", t>> \in Range(cc.log) => cc.rets[t] = ""
             /\ <<"updated", t>> \in Range(cc.log)
                   => (cc.payload[t] \in SerialStates /\ Holds(cc.payload[t], t))
       /\ \A i \in 1..Len(cc.disk) :
             /\ Precedes(<<"write", cc.disk[i].by>>, <<"saved", cc.disk[i].by>>)
             /\ \E t \in CcMutators : Precedes(<<"schedule", t>>, <<"write", cc.disk[i].by>>)
             /\ \A t \in CcMutators :
                   Holds(cc.disk[i].values, t)
                      => /\ Precedes(<<"updated", t>>, <<"write", cc.disk[i].by>>)
                         /\ Precedes(<<"return", t>>, <<"write", cc.disk[i].by>>)

\* the patch returned to its caller, then its save was written and notified
C28_Witness ==
    /\ cc # CcIdle
    /\ Len(cc.log) = 6
    /\ cc.log[1] = <<"commit", "p1">>
    /\ cc.log[2] = <<"updated", "p1">>
    /\ cc.log[3] = <<"schedule", "p1">>
    /\ cc.log[4] = <<"return", "p1">>
    /\ cc.log[5] = <<"write", "s1">>
    /\ cc.log[6] = <<"saved", "s1">>
    /\ cc.disk[1].values["i2"].name = "b"

\* C29: a step of the atomic write that fails after the temporary file was
\* created (write, sync, close, chmod, rename) makes the write return an
\* error; when the write has returned an error no temporary file exists and
\* the destination is what it was before the call; when it has returned
\* without error no temporary file exists and the destination holds exactly
\* the new bytes.
C29_AtomicWriteCleansUp ==
    [][/\ (aw'.pc = "cleanup" /\ aw'.tmpExists) => aw'.err # ""
       /\ (aw'.pc = "done" /\ aw.pc = "cleanup")
            => /\ ~aw'.tmpExists
               /\ aw'.err = aw.err
               /\ IF aw'.err # ""
                  THEN /\ aw'.dest = aw'.old
                       /\ aw'.destExists = aw'.oldExists
                  ELSE /\ aw'.destExists
                       /\ aw'.dest = aw'.data]_vars

\* the rename failed after the whole payload was in the temporary file: the
\* write has returned, the temporary file is gone, the destination is old
C29_Witness ==
    /\ aw.pc = "done"
    /\ aw.err = "failed to rename temp file"
    /\ ~aw.tmpExists
    /\ aw.destExists
    /\ aw.dest = aw.old
    /\ aw.data # aw.old
    /\ Len(aw.data) = MaxLen

\* C30: when UpdateConfig of the generic manager returns an error (the
\* updater's, or the validator's rejection), the committed config is exactly
\* what it was before the call, no notification is emitted and no save is
\* scheduled.
C30_FailedUpdateLeavesConfig ==
    [][(bm'.ret.op = "UpdateConfig" /\ bm'.ret.err # "" /\ bm'.n = bm.n + 1)
         => /\ bm'.config = bm.config
            /\ bm'.events = bm.events
            /\ bm'.armed = bm.armed]_vars

\* C31: a successful Patch of the generic manager leaves the committed
\* version as it was, whatever the patch map holds, a "version" key included.
C31_PatchKeepsVersion ==
    [][(bm'.ret.op = "Patch" /\ bm'.ret.err = "" /\ bm'.n = bm.n + 1)
         => bm'.config.version = bm.config.version]_vars

\* C32: the transition from version 1 to 2, applied to what its first
\* application left, succeeds and leaves the same values and the same
\* rootOrder; and a transition that returns an error (unknown version) has
\* left values, rootOrder and version as they were.
C32_TransitionIdempotent ==
    /\ (rt.pc = "twice" /\ rt.from = 1)
         => /\ rt.res.err = ""
            /\ rt.res.cfg.values = rt.c.values
            /\ rt.res.cfg.rootOrder = rt.c.rootOrder
    /\ (rt.pc \in {"once", "twice"} /\ rt.res.err # "")
         => /\ rt.from \notin {0, 1}
            /\ rt.res.cfg = rt.c

\* the transition was applied again to a config whose three root folders the
\* first application had put into rootOrder
C32_Witness ==
    /\ rt.pc = "twice"
    /\ rt.from = 1
    /\ Len(rt.c.rootOrder) = 3
    /\ Range(rt.c.rootOrder) = {"i1", "i2", "i3"}
    /\ rt.res.cfg = rt.c

\* no id occurs twice in the list s
NoRepeat(s) == \A i, j \in 1..Len(s) : s[i] = s[j] => i = j

\* the list t is the list s with new ids after it, each once
Extends(s, t) ==
    /\ Len(t) >= Len(s)
    /\ SubSeq(t, 1, Len(s)) = s
    /\ NoRepeat(SubSeq(t, Len(s) + 1, Len(t)))
    /\ \A i \in (Len(s) + 1)..Len(t) : t[i] \notin Range(s)

WalkAgrees ==
    va.pc = "done"
      => IF va.err = "" THEN validateMaxNestingDepth(va.c.values) = {}
         ELSE va.err \in validateMaxNestingDepth(va.c.values)

\* C34: the depth walk of Validate returns a verdict for every
\* configuration, cycles below a root folder included, and its recursion
\* never holds more than MaxFolderDepth folders: every call is made with a
\* depth below MaxFolderDepth, and the stack is at most MaxFolderDepth calls
\* on folders and one on the item below the last of them.
C34_WalkTerminatesBounded ==
    /\ [](/\ Len(va.stack) <= MaxFolderDepth + 1
          /\ \A i \in 1..Len(va.stack) :
                /\ va.stack[i].depth < MaxFolderDepth
                /\ va.stack[i].depth <= i - 1)
    /\ <>(va.pc = "done")

\* the walk from the root i1 went round the cycle i2, i3, i2 and returned
\* the depth error
C34_Witness ==
    /\ va.pc = "done"
    /\ va.err = "folder cannot contain nested folders"
    /\ DOMAIN va.c.values = {"i1", "i2", "i3"}
    /\ va.c.values["i1"].children = <<"i2">>
    /\ va.c.values["i2"].children = <<"i3">>
    /\ va.c.values["i3"].children = <<"i2">>

\* C35: with a loaded config and an existing folder parent, AddRequest and
\* AddFolder of the BaseManager-embedding Manager return the new id to
\* their caller.
C35_AddReturns ==
    (/\ em.pc = "body"
     /\ em.op \in EmAdds
     /\ em.loaded
     /\ CcParentFound(em.config.values, em.parent))
      ~> (em.pc = "idle" /\ em.ret.op \in EmAdds /\ em.ret.err = "" /\ em.ret.id # "")

\* the caller of AddRequest or AddFolder waits in GetContext for the lock it
\* holds itself, with the timer's goroutine idle
EmAddStuck ==
    /\ em.pc = "getctx"
    /\ em.op \in EmAdds
    /\ em.mu = "caller"
    /\ ~em.armed
    /\ em.tpc = "idle"

\* C36: two runs of Validate on one configuration, each loop over a map in
\* an order of its own, both accept or both reject.
C36_VerdictOrderIndependent ==
    va.pc = "done" /\ va.run = 2 => ((va.first.err = "") <=> (va.err = ""))

\* both runs rejected the configuration, for different items
C36_Witness ==
    /\ va.pc = "done"
    /\ va.run = 2
    /\ va.first.err # ""
    /\ va.err # ""
    /\ va.first.at # va.at


\* the folders that list id as a child
ParentsOf(values, id) == {k \in DOMAIN values : id \in Range(values[k].children)}

\* every id is a child of at most one folder, at most once, and no item is
\* its own ancestor
Forest(values) ==
    /\ \A k \in DOMAIN values : NoRepeat(values[k].children)
    /\ \A id \in DOMAIN values \cup ReferencedIDs(values) :
          Cardinality(ParentsOf(values, id)) <= 1
    /\ \A k \in DOMAIN values :
          k \notin Descendants(values, k)

\* C37: a successful AddRequest or AddFolder on a forest leaves a forest:
\* the new id has exactly one parent, the one named in the call, and no
\* other id's parent changes.
C37_AddPreservesForest ==
    [][ret'.op \in {"AddRequest", "AddFolder"} /\ ret'.err = "" /\ Forest(config.values)
         => /\ Forest(config'.values)
            /\ ret'.id \notin DOMAIN config.values
            /\ ParentsOf(config'.values, ret'.id) = {ret'.parent}
            /\ \A id \in DOMAIN config.values \cup ReferencedIDs(config.values) :
                  ParentsOf(config'.values, id) = ParentsOf(config.values, id)]_vars

\* two calls have succeeded on a forest, the second one into the folder the
\* first one made
C37_Witness ==
    /\ nops = 2
    /\ ret.op = "AddRequest"
    /\ ret.err = ""
    /\ ret.parent \in DOMAIN config.values
    /\ ParentsOf(config.values, ret.parent) # {}
    /\ \A p \in ParentsOf(config.values, ret.parent) : p \in {"i1", "i2"}
    /\ ret.parent \notin {"i1", "i2"}
    /\ Forest(config.values)

\* C38: a Load that returns an error leaves the requests file exactly as it
\* was before the call; a document that is migrated and then fails
\* validation is not rewritten.
C38_FailedLoadLeavesFile ==
    [][ret'.op = "Load" /\ ret'.err # "" => file' = file]_vars

====
